---- MODULE Spec2Model ----
(***************************************************************************)
(* Session credential lifecycle of gemini_webapi:                          *)
(*   - the retry wrapper `running(retry)` of utils/decorators.py, in its   *)
(*     coroutine form (_wrap_async_function) and its async-generator form  *)
(*     (_wrap_async_generator);                                            *)
(*   - the credential probe get_access_token of utils/get_access_token.py; *)
(*   - the rotation rotate_1psidts of utils/rotate_1psidts.py and the      *)
(*     cache directory it shares with the probe.                           *)
(* Spec is the retry wrapper, SpecBoth its two forms on the same inputs,   *)
(* SpecPair concurrent callers of one client; SpecProbe is the probe,      *)
(* SpecRotate the rotation, SpecCycle the two on one cache directory,      *)
(* SpecShared one cache file under concurrent calls, SpecKeys the session  *)
(* id and the cache directory of both modules.                             *)
(***************************************************************************)
EXTENDS Integers, Sequences, FiniteSets, TLC

VARIABLES
    \* ---- retry wrapper (utils/decorators.py) ----
    kind,               \* "function" | "generator": which wrapper running() chose
    retry_max,          \* the decorator's retry argument
    client_running,     \* client._running
    pc,                 \* where the wrapper is: idle, init, call, sleep, done
    retries_remaining,  \* retries_remaining of the innermost wrapper frame
    caught,             \* APIErrors held by the except blocks of the outer frames
    attempts,           \* history: one record per wrapper frame entered
    sleeps,             \* history: the delays passed to asyncio.sleep, in order
    calls,              \* history: number of invocations of func
    init_calls,         \* history: number of client.init() calls
    received,           \* items the consumer of the generator wrapper received
    outcome,            \* what the top-level call gave its caller
    \* ---- probe (utils/get_access_token.py) ----
    base_cookies,       \* the base_cookies argument
    cache,              \* cache directory: account key -> content of its file
    tasks,              \* the tasks list, in submission order
    task_done,          \* completion order of the tasks (indices into tasks)
    probe_pc,           \* start, racing, returned, raised
    inspected,          \* number of futures as_completed has handed out
    probe_result,       \* what get_access_token returned or raised
    google,             \* history: how the GET to google.com ended
    \* ---- rotation (utils/rotate_1psidts.py) ----
    now,                \* time.time(), in seconds
    ticks,              \* number of times the clock was advanced
    cache_mtime,        \* st_mtime of each cache file
    cache_mode,         \* permission bits of each cache file
    rot,                \* the rotate_1psidts call in progress or just ended
    rot_calls,          \* number of rotate_1psidts calls made
    rot_requests,       \* POSTs to the rotation endpoint issued by this call
    \* ---- the two wrappers on the same inputs ----
    first_run,          \* the coroutine wrapper's finished run, to be replayed
    \* ---- one cache file under concurrent calls ----
    file,               \* the cache file of one session id, as the file system has it
    procs,              \* the calls that use the file, each in its own thread or process
    \* ---- session id and cache directory (both modules) ----
    environ,            \* os.environ["GEMINI_COOKIE_PATH"]
    credentials,        \* a cookies argument: a dict or a Cookies jar
    resolved,           \* what the probe's and the rotation's helpers gave for it
    \* ---- probe and rotation on one cache directory ----
    probe_found,        \* history: the cache directory as the probe found it
    \* ---- concurrent callers of one client ----
    callers             \* the wrapped calls in progress on the client, one per task

wrapper_vars == <<kind, retry_max, client_running, pc, retries_remaining, caught,
                  attempts, sleeps, calls, init_calls, received, outcome>>
probe_vars == <<base_cookies, cache, tasks, task_done, probe_pc, inspected,
                probe_result, google>>
rotate_vars == <<now, ticks, cache_mtime, cache_mode, rot, rot_calls, rot_requests>>
replay_vars == <<first_run>>
shared_vars == <<file, procs>>
keys_vars == <<environ, credentials, resolved>>
cycle_vars == <<probe_found>>
pair_vars == <<callers>>
more_vars == <<replay_vars, shared_vars, keys_vars, cycle_vars, pair_vars>>
vars == <<wrapper_vars, probe_vars, rotate_vars, more_vars>>

----------------------------------------------------------------------------
\* Bounds of the model.
MaxRetry == 3
MaxItems == 2
NumAccounts == 2
MaxTicks == 2
MaxRotations == 2
NumProcs == 2
MaxDetailed == 1
MaxResolved == 2
NumCallers == 2

\* utils/decorators.py
DELAY_FACTOR == 5

----------------------------------------------------------------------------
\* Exceptions (exceptions.py) an attempt can raise: the recoverable APIError,
\* and AuthError, RequestTimeoutError and a transport error, which derive from
\* Exception or GeminiError and not from APIError.
ErrorKinds == {"APIError", "AuthError", "RequestTimeoutError", "TransportError"}

\* isinstance(e, APIError)
IsAPIError(k) == k = "APIError"

\* An exception object: its class, the place that raised it, the attempt it
\* was raised in.
Error(k, origin, attempt) == [kind |-> k, origin |-> origin, attempt |-> attempt]
NoError == Error("none", "none", 0)

NoOutcome == [status |-> "none", value |-> 0, error |-> NoError]

\* What func does in one invocation (the wrapped operation is the caller's).
OpOutcomes == {"ok"} \cup ErrorKinds
\* What client.init() does: returns with the client running, returns with the
\* client still not running, or raises.
InitOutcomes == {"running", "not_running", "APIError", "AuthError"}

\* Slips of _calculate_retry_delay: the remaining budget taken for the elapsed
\* one, and the + 1 left out.
calculate_retry_delay_shrinking(rmax, current_retry) ==
    (current_retry + 1) * DELAY_FACTOR
calculate_retry_delay_from_zero(rmax, current_retry) ==
    (rmax - current_retry) * DELAY_FACTOR

\* _calculate_retry_delay(retry_max, current_retry)
calculate_retry_delay(rmax, current_retry) ==
    (rmax - current_retry + 1) * DELAY_FACTOR

\* Slip: `except Exception:`.
except_Exception(err) == TRUE

\* `except APIError:` of both wrappers.
except_APIError(err) == IsAPIError(err.kind)

\* Slip: the last retry is given up.
budget_exhausted_early(remaining) == remaining <= 1

\* `if retries_remaining <= 0: raise`
budget_exhausted(remaining) == remaining <= 0

\* current_retry passed to the recursive wrapper call.
next_current_retry(remaining) == remaining - 1

\* Slip: init() is not called while another caller's init() is in progress.
needs_init_unless_in_progress(is_running) ==
    ~is_running /\ ~\E c \in DOMAIN callers : callers[c].pc = "init"

\* Slip: init() on every attempt.
needs_init_always(is_running) == TRUE

\* `if client._running: return` of _ensure_client_running: TRUE when init() has
\* to be called.
needs_init(is_running) == ~is_running

\* Slip: `await wrapper(...)` without `return`.
return_dropped_in_outer_frames(value, depth) == IF depth > 0 THEN 0 ELSE value

\* The value `return await wrapper(...)` hands up through `depth` outer frames.
return_through_frames(value, depth) == value

\* Slip: the first caught exception is raised again.
reraise_first(err, held) == IF held = <<>> THEN err ELSE held[1]

\* The exception that leaves the wrapper when a frame's except block re-raises
\* with `raise` while the outer frames' except blocks hold `held`.
reraise(err, held) == err

\* Slip: an item already handed out is not handed out again.
yield_item_once(got, item) ==
    IF \E i \in DOMAIN got : got[i] = item THEN got ELSE Append(got, item)

\* `yield item` of the generator wrapper (in every frame the item passes).
yield_item(got, item) == Append(got, item)

----------------------------------------------------------------------------
\* History helpers.
NewAttempt(remaining, is_running, inits) ==
    [remaining |-> remaining, running_at_start |-> is_running,
     init_called |-> inits, init_outcome |-> "none", op |-> "none",
     items |-> <<>>]

Last(s) == s[Len(s)]
SetLast(s, f, v) == [s EXCEPT ![Len(s)][f] = v]

\* The number of the attempt in progress.
Attempt == Len(attempts)

----------------------------------------------------------------------------
\* Steps of the source that run without suspension inside an action (each is
\* used inside an action, never as an action of its own).

\* _ensure_client_running up to its first suspension, at the entry of a frame
\* whose budget is `remaining`: it reads client._running and either returns
\* (the wrapper goes on to invoke func) or calls client.init().
EnsureClientRunning(remaining) ==
    LET inits == needs_init(client_running)
    IN  /\ attempts' = Append(attempts,
                [NewAttempt(remaining, client_running, inits)
                    EXCEPT !.op = IF inits THEN "none" ELSE "pending"])
        /\ IF inits
             THEN /\ init_calls' = init_calls + 1
                  /\ calls' = calls
                  /\ pc' = "init"
             ELSE /\ init_calls' = init_calls
                  /\ calls' = calls + 1
                  /\ pc' = "call"

\* Slip: client._running is not checked after init().
EnsureAfterInitUnchecked(o) ==
    IF o \in {"running", "not_running"} THEN NoError
    ELSE Error(o, "init", Attempt)

\* client.init() ends with outcome o: the rest of _ensure_client_running.
\* Gives the exception that leaves _ensure_client_running, NoError when it
\* returns normally.
EnsureAfterInit(o) ==
    CASE o = "running"     -> NoError
      [] o = "not_running" -> Error("APIError", "ensure", Attempt)
      [] OTHER             -> Error(o, "init", Attempt)

\* Entry of the coroutine wrapper(client, current_retry=cr); is_none says that
\* current_retry is None (the caller's own call).
FuncEnterWrapper(is_none, cr) ==
    LET remaining == IF is_none THEN retry_max ELSE cr
    IN  /\ retries_remaining' = remaining
        /\ EnsureClientRunning(remaining)

\* Slip: the sleep comes before the test of the budget.
FuncHandleExceptionSleepsFirst(err, hist) ==
    /\ attempts' = hist
    /\ IF except_APIError(err)
         THEN /\ sleeps' = Append(sleeps,
                              calculate_retry_delay(retry_max, retries_remaining))
              /\ IF ~budget_exhausted(retries_remaining)
                   THEN /\ caught' = Append(caught, err)
                        /\ pc' = "sleep"
                        /\ outcome' = outcome
                   ELSE /\ pc' = "done"
                        /\ outcome' = [status |-> "raised", value |-> 0,
                                       error |-> reraise(err, caught)]
                        /\ caught' = caught
         ELSE /\ pc' = "done"
              /\ outcome' = [status |-> "raised", value |-> 0,
                             error |-> reraise(err, caught)]
              /\ UNCHANGED <<sleeps, caught>>

\* An exception `err` raised inside the try block of the innermost frame of the
\* coroutine wrapper; hist is the history with this attempt's record completed.
FuncHandleException(err, hist) ==
    /\ attempts' = hist
    /\ IF except_APIError(err) /\ ~budget_exhausted(retries_remaining)
         THEN \* delay = _calculate_retry_delay(...); await asyncio.sleep(delay)
              /\ sleeps' = Append(sleeps,
                              calculate_retry_delay(retry_max, retries_remaining))
              /\ caught' = Append(caught, err)
              /\ pc' = "sleep"
              /\ outcome' = outcome
         ELSE \* not caught, or `raise`: the exception leaves every frame
              /\ pc' = "done"
              /\ outcome' = [status |-> "raised", value |-> 0,
                             error |-> reraise(err, caught)]
              /\ UNCHANGED <<sleeps, caught>>

\* Entry of the generator wrapper's body (first __anext__ of the frame).
GenEnterWrapper(is_none, cr) ==
    LET remaining == IF is_none THEN retry_max ELSE cr
    IN  /\ retries_remaining' = remaining
        /\ EnsureClientRunning(remaining)

\* Slip: `except Exception:` in the generator wrapper only.
GenHandleExceptionOfAnyClass(err, hist) ==
    /\ attempts' = hist
    /\ IF ~(retries_remaining <= 0)
         THEN /\ sleeps' = Append(sleeps,
                              calculate_retry_delay(retry_max, retries_remaining))
              /\ caught' = Append(caught, err)
              /\ pc' = "sleep"
              /\ outcome' = outcome
         ELSE /\ pc' = "done"
              /\ outcome' = [status |-> "raised", value |-> 0, error |-> err]
              /\ UNCHANGED <<sleeps, caught>>

\* The same for the generator wrapper (lines 67-75).
GenHandleException(err, hist) ==
    /\ attempts' = hist
    /\ IF IsAPIError(err.kind) /\ ~(retries_remaining <= 0)
         THEN /\ sleeps' = Append(sleeps,
                              calculate_retry_delay(retry_max, retries_remaining))
              /\ caught' = Append(caught, err)
              /\ pc' = "sleep"
              /\ outcome' = outcome
         ELSE /\ pc' = "done"
              /\ outcome' = [status |-> "raised", value |-> 0, error |-> err]
              /\ UNCHANGED <<sleeps, caught>>

----------------------------------------------------------------------------
\* Actions of the coroutine wrapper (_wrap_async_function.wrapper).

\* The caller awaits the wrapped operation (current_retry is None).
FuncCall ==
    /\ kind = "function" /\ pc = "idle"
    /\ FuncEnterWrapper(TRUE, 0)
    /\ UNCHANGED <<kind, retry_max, client_running, caught, sleeps, received,
                   outcome>>
    /\ UNCHANGED <<probe_vars, rotate_vars, more_vars>>

\* client.init() ends; _ensure_client_running checks client._running again and
\* the wrapper invokes func or handles the exception.
FuncInitEnds(o) ==
    /\ kind = "function" /\ pc = "init"
    /\ client_running' = (o = "running")
    /\ LET err == EnsureAfterInit(o)
           hist == SetLast(attempts, "init_outcome", o)
       IN  IF err = NoError
             THEN /\ attempts' = SetLast(hist, "op", "pending")
                  /\ calls' = calls + 1
                  /\ pc' = "call"
                  /\ UNCHANGED <<sleeps, caught, outcome>>
             ELSE /\ FuncHandleException(err, hist)
                  /\ calls' = calls
    /\ UNCHANGED <<kind, retry_max, retries_remaining, init_calls, received>>
    /\ UNCHANGED <<probe_vars, rotate_vars, more_vars>>

\* `await func(client, ...)` ends: it returns a value or raises.
FuncOpEnds(o) ==
    /\ kind = "function" /\ pc = "call"
    /\ LET hist == SetLast(attempts, "op", o)
       IN  IF o = "ok"
             THEN /\ attempts' = hist
                  /\ pc' = "done"
                  /\ outcome' = [status |-> "returned",
                                 value |-> return_through_frames(Attempt, Len(caught)),
                                 error |-> NoError]
                  /\ UNCHANGED <<sleeps, caught>>
             ELSE FuncHandleException(Error(o, "op", Attempt), hist)
    /\ UNCHANGED <<kind, retry_max, client_running, retries_remaining, calls,
                   init_calls, received>>
    /\ UNCHANGED <<probe_vars, rotate_vars, more_vars>>

\* asyncio.sleep(delay) ends: `return await wrapper(..., current_retry=
\* retries_remaining - 1)`.
FuncSleepEnds ==
    /\ kind = "function" /\ pc = "sleep"
    /\ FuncEnterWrapper(FALSE, next_current_retry(retries_remaining))
    /\ UNCHANGED <<kind, retry_max, client_running, caught, sleeps, received,
                   outcome>>
    /\ UNCHANGED <<probe_vars, rotate_vars, more_vars>>

----------------------------------------------------------------------------
\* Actions of the generator wrapper (_wrap_async_generator.wrapper). The
\* consumer iterates the wrapper to its end.

\* The consumer asks for the first item: the body of the generator starts.
GenCall ==
    /\ kind = "generator" /\ pc = "idle"
    /\ GenEnterWrapper(TRUE, 0)
    /\ UNCHANGED <<kind, retry_max, client_running, caught, sleeps, received,
                   outcome>>
    /\ UNCHANGED <<probe_vars, rotate_vars, more_vars>>

GenInitEnds(o) ==
    /\ kind = "generator" /\ pc = "init"
    /\ client_running' = (o = "running")
    /\ LET err == EnsureAfterInit(o)
           hist == SetLast(attempts, "init_outcome", o)
       IN  IF err = NoError
             THEN /\ attempts' = SetLast(hist, "op", "pending")
                  /\ calls' = calls + 1
                  /\ pc' = "call"
                  /\ UNCHANGED <<sleeps, caught, outcome>>
             ELSE /\ GenHandleException(err, hist)
                  /\ calls' = calls
    /\ UNCHANGED <<kind, retry_max, retries_remaining, init_calls, received>>
    /\ UNCHANGED <<probe_vars, rotate_vars, more_vars>>

\* func's generator yields its next item; `yield item` hands it to the consumer
\* (through every outer frame's `yield item`). An invocation of func yields the
\* items 1, 2, ... of the operation's output, from the beginning.
GenYield ==
    /\ kind = "generator" /\ pc = "call"
    /\ Len(Last(attempts).items) < MaxItems
    /\ LET item == Len(Last(attempts).items) + 1
       IN  /\ attempts' = SetLast(attempts, "items",
                                  Append(Last(attempts).items, item))
           /\ received' = yield_item(received, item)
    /\ UNCHANGED <<kind, retry_max, client_running, pc, retries_remaining, caught,
                   sleeps, calls, init_calls, outcome>>
    /\ UNCHANGED <<probe_vars, rotate_vars, more_vars>>

\* func's generator ends: it is exhausted ("ok") or raises.
GenOpEnds(o) ==
    /\ kind = "generator" /\ pc = "call"
    /\ LET hist == SetLast(attempts, "op", o)
       IN  IF o = "ok"
             THEN /\ attempts' = hist
                  /\ pc' = "done"
                  /\ outcome' = [status |-> "finished", value |-> 0,
                                 error |-> NoError]
                  /\ UNCHANGED <<sleeps, caught>>
             ELSE GenHandleException(Error(o, "op", Attempt), hist)
    /\ UNCHANGED <<kind, retry_max, client_running, retries_remaining, calls,
                   init_calls, received>>
    /\ UNCHANGED <<probe_vars, rotate_vars, more_vars>>

GenSleepEnds ==
    /\ kind = "generator" /\ pc = "sleep"
    /\ GenEnterWrapper(FALSE, retries_remaining - 1)
    /\ UNCHANGED <<kind, retry_max, client_running, caught, sleeps, received,
                   outcome>>
    /\ UNCHANGED <<probe_vars, rotate_vars, more_vars>>

----------------------------------------------------------------------------
\* The client stops running (close(), auto-close) while the wrapped operation
\* runs or the wrapper sleeps.
ClientClose ==
    /\ pc \in {"call", "sleep"}
    /\ client_running
    /\ client_running' = FALSE
    /\ UNCHANGED <<kind, retry_max, pc, retries_remaining, caught, attempts,
                   sleeps, calls, init_calls, received, outcome>>
    /\ UNCHANGED <<probe_vars, rotate_vars, more_vars>>

----------------------------------------------------------------------------
\* The probe: get_access_token (utils/get_access_token.py).

\* Cookie and file values: Absent is a missing key or file (None), Empty the
\* empty string, anything above a value. Session ids are 1..NumAccounts.
Absent == -1
Empty == 0
Accounts == 1..NumAccounts
BaseToken == 1      \* the __Secure-1PSIDTS value the caller passes
CachedToken == 2    \* the __Secure-1PSIDTS value a cache file holds

\* Python truthiness of a str | None, and `name in cookies`.
Truthy(v) == v > Empty
Present(v) == v >= Empty

\* A cookie jar, as far as the probe looks at it.
Jar(psid, psidts) == [psid |-> psid, psidts |-> psidts]

\* _get_secure_1psid(cookies) for a dict.
get_secure_1psid(cookies) == cookies.psid

\* What the init endpoint answers to one candidate: a page, with or without
\* tokens in it, or an exception out of send_request (raise_for_status or the
\* transport, or the consent redirect's AuthError).
Responses == {"tokens", "no_tokens", "http_error", "consent"}

\* A page, as the regular expressions of lines 158-160 see it: for "SNlM0e",
\* "cfb2h" and "FdrFJe" the value found, Empty when the page has the field with
\* an empty value, Absent when it has no such field.
Page(s, c, f) == [snlm0e |-> s, cfb2h |-> c, fdrfje |-> f]
PageToken == 1

\* Pages with some of the fields; "tokens" has all three, "no_tokens" none.
DetailedPages ==
    {"only_snlm0e", "only_cfb2h", "only_fdrfje", "no_snlm0e", "empty_snlm0e",
     "empty_cfb2h"}
PageOf(r) ==
    CASE r = "tokens"       -> Page(PageToken, PageToken, PageToken)
      [] r = "only_snlm0e"  -> Page(PageToken, Absent, Absent)
      [] r = "only_cfb2h"   -> Page(Absent, PageToken, Absent)
      [] r = "only_fdrfje"  -> Page(Absent, Absent, PageToken)
      [] r = "no_snlm0e"    -> Page(Absent, PageToken, PageToken)
      [] r = "empty_snlm0e" -> Page(Empty, Absent, Absent)
      [] r = "empty_cfb2h"  -> Page(Absent, Empty, Absent)
      [] OTHER              -> Page(Absent, Absent, Absent)

\* The result of the probe when it returns nothing: (None, None, None).
NoTokens == <<Absent, Absent, Absent>>

\* Slip: SNlM0e is None when the page has none.
extract_tokens_without_default(page) ==
    IF ~(Present(page.snlm0e) \/ Present(page.cfb2h) \/ Present(page.fdrfje))
      THEN NoTokens
      ELSE <<page.snlm0e, page.cfb2h, page.fdrfje>>

\* _extract_tokens_from_response: (snlm0e, cfb2h, fdrfje).
extract_tokens_from_response(page) ==
    IF ~(Present(page.snlm0e) \/ Present(page.cfb2h) \/ Present(page.fdrfje))
      THEN NoTokens
      ELSE <<IF Present(page.snlm0e) THEN page.snlm0e ELSE Empty,
             page.cfb2h, page.fdrfje>>

\* `if snlm0e is not None or cfb2h or fdrfje` of line 236.
any_token_found(t) == t[1] /= Absent \/ Truthy(t[2]) \/ Truthy(t[3])

\* _extract_tokens_from_response followed by the success test of line 236,
\* on the page of response r.
page_has_tokens(r) == any_token_found(extract_tokens_from_response(PageOf(r)))

\* send_request raises for this response.
request_raises(r) == r \in {"http_error", "consent"}

NewTask(jar) == [jar |-> jar, state |-> "pending", response |-> "none"]

\* Slip: only __Secure-1PSID is looked for.
add_base_cookie_task_if_psid(cookies) ==
    IF Present(cookies.psid)
      THEN <<NewTask(Jar(cookies.psid, cookies.psidts))>>
      ELSE <<>>

\* _add_base_cookie_task: the tasks it appends.
add_base_cookie_task(cookies) ==
    IF Present(cookies.psid) /\ Present(cookies.psidts)
      THEN <<NewTask(Jar(cookies.psid, cookies.psidts))>>
      ELSE <<>>

\* Slip: a file older than 60 seconds is skipped, as the rotation does.
add_single_cached_cookie_task_if_fresh(cookies, files, secure_1psid) ==
    IF files[secure_1psid] = Absent THEN <<>>
    ELSE IF now - cache_mtime[secure_1psid] > 60 THEN <<>>
    ELSE IF ~Truthy(files[secure_1psid]) THEN <<>>
    ELSE <<NewTask(Jar(cookies.psid, files[secure_1psid]))>>

\* Slip: the check for an empty cache file is left out.
add_single_cached_cookie_task_unchecked(cookies, files, secure_1psid) ==
    IF files[secure_1psid] = Absent THEN <<>>
    ELSE <<NewTask(Jar(cookies.psid, files[secure_1psid]))>>

\* _add_single_cached_cookie_task: the tasks it appends.
add_single_cached_cookie_task(cookies, files, secure_1psid) ==
    IF files[secure_1psid] = Absent THEN <<>>
    ELSE IF ~Truthy(files[secure_1psid]) THEN <<>>
    ELSE <<NewTask(Jar(cookies.psid, files[secure_1psid]))>>

\* The name of the cache file of a session id: f".cached_1psidts_{psid}.txt",
\* a sequence of characters. A session id is one character here.
CachePrefix ==
    <<".", "c", "a", "c", "h", "e", "d", "_", "1", "p", "s", "i", "d", "t", "s", "_">>
cache_file_name(psid) == CachePrefix \o <<psid>> \o <<".txt">>

\* Path.stem: the name without its suffix.
stem(name) == SubSeq(name, 1, Len(name) - 1)

\* `cache_file.stem[16:]` of line 141, as the value of the cookie.
psid_from_stem(s) == SubSeq(s, 17, Len(s))[1]

\* cache_file.read_text() for a file that glob listed.
read_text(files, name) ==
    files[CHOOSE a \in DOMAIN files : cache_file_name(a) = name]

\* cache_dir.glob(".cached_1psidts_*.txt"): the names of the files that exist.
glob(files) == {cache_file_name(a) : a \in {b \in DOMAIN files : files[b] /= Absent}}

\* All the orders in which glob can list the files of the set S.
Listings(S) ==
    {s \in [1..Cardinality(S) -> S] : \A x \in S : \E i \in DOMAIN s : s[i] = x}

RECURSIVE all_cached_tasks(_, _)
all_cached_tasks(files, listing) ==
    IF listing = <<>> THEN <<>>
    ELSE LET cached_1psidts == read_text(files, Head(listing))
             psid == psid_from_stem(stem(Head(listing)))
             rest == all_cached_tasks(files, Tail(listing))
         IN  IF ~Truthy(cached_1psidts) THEN rest
             ELSE <<NewTask(Jar(psid, cached_1psidts))>> \o rest

\* Slip: the loop ends after the first file that holds a token.
add_all_cached_cookie_tasks_first_only(files, listing) ==
    IF all_cached_tasks(files, listing) = <<>> THEN <<>>
    ELSE <<Head(all_cached_tasks(files, listing))>>

\* _add_all_cached_cookie_tasks, glob listing the files in the order `listing`.
add_all_cached_cookie_tasks(files, listing) == all_cached_tasks(files, listing)

\* Slip: with no record for the session id, the other records are tried.
add_cached_cookie_tasks_with_fallback(cookies, files, secure_1psid, listing) ==
    IF Truthy(secure_1psid)
          /\ add_single_cached_cookie_task(cookies, files, secure_1psid) /= <<>>
      THEN add_single_cached_cookie_task(cookies, files, secure_1psid)
      ELSE add_all_cached_cookie_tasks(files, listing)

\* _add_cached_cookie_tasks
add_cached_cookie_tasks(cookies, files, secure_1psid, listing) ==
    IF Truthy(secure_1psid)
      THEN add_single_cached_cookie_task(cookies, files, secure_1psid)
      ELSE add_all_cached_cookie_tasks(files, listing)

\* An exception out of get_access_token: its class, its message (text) and
\* the number the message gives, Absent when it gives none.
ProbeRaise(k, text, n) ==
    [status |-> "raised", error |-> k, text |-> text, count |-> n,
     response |-> "none", tokens |-> NoTokens, cookies |-> Jar(Absent, Absent),
     task |-> 0]
\* The return of line 239: the three tokens and the cookies of the request.
\* task is history: the index of the task whose result is returned.
ProbeReturn(i, r, jar) ==
    [status |-> "returned", error |-> "none", text |-> "none", count |-> Absent,
     response |-> r, tokens |-> extract_tokens_from_response(PageOf(r)),
     cookies |-> jar, task |-> i]
NoProbeResult ==
    [status |-> "none", error |-> "none", text |-> "none", count |-> Absent,
     response |-> "none", tokens |-> NoTokens, cookies |-> Jar(Absent, Absent),
     task |-> 0]

\* The exception send_request raises for response r (lines 24 and 29).
CandidateError(r) ==
    IF r = "consent"
      THEN ProbeRaise("AuthError", "Redirected to Google consent page", Absent)
      ELSE ProbeRaise("TransportError", "HTTP error", Absent)

\* Slips: `except AuthError:`, and an except block that raises AuthError again.
candidate_error_swallowed_if_auth(r) == r = "consent"
candidate_error_swallowed_unless_auth(r) == r /= "consent"

\* `except Exception as e:` of line 243: TRUE when the exception of a
\* candidate's request is caught (and only logged).
candidate_error_swallowed(r) == TRUE

\* Slip: the index of the last turn of the loop is reported.
failed_attempts_last_index(ts, i) == i

\* The number in the message of line 247, after the turn with index i of
\* `for i, future in enumerate(...)` ended the loop: len(tasks).
failed_attempts(ts, i) == Len(ts)

\* Slip: the tasks still pending are cancelled before the return.
state_after_return_cancelled(st) == IF st = "pending" THEN "cancelled" ELSE st

\* What line 239 (the return) does to a task in state st: nothing.
state_after_return(st) == st

\* Slip: the futures are awaited in the order of the tasks list.
nth_in_submission_order(done, n) == n

\* Slip: any page is taken for a success.
accepts_any_page(task) == ~request_raises(task.response)

\* What the loop body of lines 231-245 does with one awaited future: TRUE when
\* it returns the future's result.
accepts(task) ==
    /\ ~request_raises(task.response)
    /\ page_has_tokens(task.response)

\* Slip: the loop gives up after the first future that does not succeed.
as_completed_exhausted_after_one(ts, n) == n >= 1

\* `for i, future in enumerate(asyncio.as_completed(tasks))` has handed out n
\* futures: TRUE when there is no further one, so that the loop ends.
as_completed_exhausted(ts, n) == n = Len(ts)

\* The future as_completed hands out as its n-th: the n-th task to complete.
nth_completed(done, n) == done[n]

\* The calls of rotate_1psidts (utils/rotate_1psidts.py) that the probe shares
\* the cache directory with.
NoResponse == [status |-> "none", psidts |-> Absent]

\* A cookie jar rotate_1psidts returns: response.cookies, or None.
ResponseJar(resp) == [none |-> FALSE, psidts |-> resp.psidts]
NoneJar == [none |-> TRUE, psidts |-> Absent]

\* One call of rotate_1psidts: where it is, its cookies' session id, the
\* response it got, what it returned or raised; and, as history, the cache
\* directory as the call found it.
Rotation(at, psid, resp, token, jar, err, files, mtimes) ==
    [pc |-> at, psid |-> psid, response |-> resp, token |-> token,
     cookies |-> jar, error |-> err, cache_at_call |-> files,
     mtime_at_call |-> mtimes, mode_at_call |-> cache_mode,
     now_at_call |-> now]
NoRotation ==
    [pc |-> "idle", psid |-> Absent, response |-> NoResponse, token |-> Absent,
     cookies |-> NoneJar, error |-> "none",
     cache_at_call |-> [a \in Accounts |-> Absent],
     mtime_at_call |-> [a \in Accounts |-> 0],
     mode_at_call |-> [a \in Accounts |-> "none"], now_at_call |-> 0]

\* The cache directory as lines 218-224 found it: the content and the
\* st_mtime of each file, and the time of the look. looked is FALSE before.
\* rotation is the last call of rotate_1psidts made before.
Found(files, mtimes, t, rotation) ==
    [looked |-> TRUE, files |-> files, mtimes |-> mtimes, at |-> t,
     rotation |-> rotation]
NotFound ==
    [looked |-> FALSE, files |-> [a \in Accounts |-> Absent],
     mtimes |-> [a \in Accounts |-> 0], at |-> 0, rotation |-> NoRotation]

\* The files lines 106-113 or 135-136 read: the one of the session id, or
\* every file glob lists.
files_read(files, secure_1psid) ==
    IF Truthy(secure_1psid)
      THEN {a \in DOMAIN files : a = secure_1psid /\ files[a] /= Absent}
      ELSE {a \in DOMAIN files : files[a] /= Absent}

\* Slip: a file is touched when it is read.
st_mtime_after_touch(mtimes, keys, t) ==
    [a \in DOMAIN mtimes |-> IF a \in keys THEN t ELSE mtimes[a]]

\* st_mtime of the files after cache_file.is_file() and
\* cache_file.read_text() on those of `keys` at time t: reading changes none.
st_mtime_after_read(mtimes, keys, t) == mtimes

\* get_access_token is called: the GET to google.com for the initial cookies
\* is under way.
ProbeCall ==
    /\ probe_pc = "start"
    /\ probe_pc' = "google"
    /\ UNCHANGED <<base_cookies, cache, tasks, task_done, inspected, probe_result,
                   google>>
    /\ UNCHANGED <<wrapper_vars, rotate_vars, more_vars>>

\* The GET to google.com raises: nothing catches it.
ProbeGoogleFails ==
    /\ probe_pc = "google"
    /\ probe_pc' = "raised"
    /\ probe_result' = ProbeRaise("TransportError", "GET google.com failed", Absent)
    /\ google' = "error"
    /\ UNCHANGED <<base_cookies, cache, tasks, task_done, inspected>>
    /\ UNCHANGED <<wrapper_vars, rotate_vars, more_vars>>

\* The GET to google.com returns: lines 217-227 collect the tasks, each
\* scheduled at once, and raise AuthError when there is none.
ProbeCollectTasks ==
    /\ probe_pc = "google"
    /\ \E listing \in Listings(glob(cache)) :
         LET secure_1psid == get_secure_1psid(base_cookies)
             collected == add_base_cookie_task(base_cookies)
                          \o add_cached_cookie_tasks(base_cookies, cache,
                                                     secure_1psid, listing)
         IN  /\ tasks' = collected
             /\ IF collected = <<>>
                  THEN /\ probe_pc' = "raised"
                       /\ probe_result' = ProbeRaise("AuthError",
                              "No valid cookies available for initialization",
                              Absent)
                  ELSE /\ probe_pc' = "racing"
                       /\ probe_result' = probe_result
    /\ google' = "ok"
    /\ probe_found' = Found(cache, cache_mtime, now, rot)
    /\ cache_mtime' = st_mtime_after_read(cache_mtime,
                          files_read(cache, get_secure_1psid(base_cookies)), now)
    /\ UNCHANGED <<base_cookies, cache, task_done, inspected>>
    /\ UNCHANGED <<now, ticks, cache_mode, rot, rot_calls, rot_requests>>
    /\ UNCHANGED <<wrapper_vars, replay_vars, shared_vars, keys_vars, pair_vars>>

\* The request of task i ends with response r. Tasks run whether or not
\* get_access_token still waits for them. The first MaxDetailed requests to
\* end have any response, the later ones a response of Responses.
TaskEnds(i, r) ==
    /\ probe_pc \in {"racing", "returned"}
    /\ r \in Responses \/ Len(task_done) < MaxDetailed
    /\ i \in DOMAIN tasks
    /\ tasks[i].state = "pending"
    /\ tasks' = [tasks EXCEPT ![i].state = "done", ![i].response = r]
    /\ task_done' = Append(task_done, i)
    /\ UNCHANGED <<base_cookies, cache, probe_pc, inspected, probe_result, google>>
    /\ UNCHANGED <<wrapper_vars, rotate_vars, more_vars>>

\* One turn of the loop over asyncio.as_completed(tasks): the next completed
\* future is awaited and inspected. The exception of the candidate's request
\* is caught; a page with tokens ends the probe with a return; after the last
\* future the loop ends and line 247 raises.
ProbeInspect ==
    /\ probe_pc = "racing"
    /\ inspected < Len(task_done)
    /\ LET i == nth_completed(task_done, inspected + 1)
           r == tasks[i].response
       IN  /\ inspected' = inspected + 1
           /\ IF request_raises(r) /\ ~candidate_error_swallowed(r)
                THEN /\ probe_pc' = "raised"
                     /\ probe_result' = CandidateError(r)
                     /\ tasks' = tasks
                ELSE IF accepts(tasks[i])
                THEN /\ probe_pc' = "returned"
                     /\ probe_result' = ProbeReturn(i, r, tasks[i].jar)
                     /\ tasks' = [j \in DOMAIN tasks |->
                            [tasks[j] EXCEPT !.state = state_after_return(@)]]
                ELSE IF as_completed_exhausted(tasks, inspected + 1)
                THEN /\ probe_pc' = "raised"
                     /\ probe_result' = ProbeRaise("AuthError",
                            "Failed to initialize client",
                            failed_attempts(tasks, inspected))
                     /\ tasks' = tasks
                ELSE UNCHANGED <<probe_pc, probe_result, tasks>>
    /\ UNCHANGED <<base_cookies, cache, task_done, google>>
    /\ UNCHANGED <<wrapper_vars, rotate_vars, more_vars>>

----------------------------------------------------------------------------
\* The rotation: rotate_1psidts (utils/rotate_1psidts.py), called one call
\* after the other.

\* max_age_seconds of _is_cache_fresh, as rotate_1psidts passes it.
FreshWindow == 60

\* The __Secure-1PSIDTS value the rotation endpoint hands out to the n-th
\* call: a new one each time.
RotatedToken(n) == CachedToken + n

\* The answers of the rotation endpoint to the n-th call: a status and the
\* __Secure-1PSIDTS cookie of the response (Absent: none), or no answer.
RotResponses(n) ==
    [status : {"200", "401"}, psidts : {Absent, Empty, RotatedToken(n)}]
        \cup {[status |-> "500", psidts |-> Absent],
              [status |-> "transport", psidts |-> Absent]}
\* Slip: the age of the file is not looked at.
is_cache_fresh_any_age(is_file, t, mtime, max_age_seconds) == is_file

\* Slip: `<` for `<=`.
is_cache_fresh_strict(is_file, t, mtime, max_age_seconds) ==
    is_file /\ t - mtime < max_age_seconds

\* _is_cache_fresh(cache_file, max_age_seconds) at time t, for a file that
\* exists or not and was modified at mtime.
is_cache_fresh(is_file, t, mtime, max_age_seconds) ==
    is_file /\ t - mtime <= max_age_seconds

\* `if response.status_code == 401`
unauthorized(resp) == resp.status = "401"

\* response.raise_for_status() raises.
raise_for_status(resp) == resp.status /= "200"

\* Slip: the cookie is compared with None.
has_new_token_if_present(new_1psidts) == Present(new_1psidts)

\* `if new_1psidts:`
has_new_token(new_1psidts) == Truthy(new_1psidts)

\* Slip: the cache is written before the status is looked at.
writes_cache_before_status(resp) == has_new_token(resp.psidts)

\* TRUE when the call reaches lines 93-95 for this response.
writes_cache(resp) ==
    /\ ~unauthorized(resp)
    /\ ~raise_for_status(resp)
    /\ has_new_token(resp.psidts)

\* Slip: the token is returned and not written.
write_text_skipped(files, key, content) == files

\* Slip: the cache directory is made anew for the write.
write_text_in_new_directory(files, key, content) ==
    [a \in DOMAIN files |-> IF a = key THEN content ELSE Absent]

\* cache_file.write_text(content)
write_text(files, key, content) == [files EXCEPT ![key] = content]

\* Slip: the mode is given to a file that the write creates, and only then.
chmod_if_created(modes, key, mode) ==
    IF modes[key] = "none" THEN [modes EXCEPT ![key] = mode] ELSE modes

\* cache_file.chmod(mode)
chmod(modes, key, mode) == [modes EXCEPT ![key] = mode]

\* Slip: the session id is compared with None.
no_session_id_if_missing(psid) == psid = Absent

\* `if not secure_1psid:` of line 61.
no_session_id(psid) == ~Truthy(psid)

\* cache_file.is_file() for the file named after key: the directory holds
\* files for session ids only.
is_file(files, key) == key \in DOMAIN files /\ files[key] /= Absent

\* Slip: the file is named after another session id.
rotate_cache_file_name_of_next(psid) ==
    CachePrefix \o <<(psid % NumAccounts) + 1>> \o <<".txt">>

\* cache_file of line 64: f".cached_1psidts_{secure_1psid}.txt".
rotate_cache_file_name(psid) == CachePrefix \o <<psid>> \o <<".txt">>

\* The file of the directory that the call for psid uses.
rotate_cache_file(psid) == psid_from_stem(stem(rotate_cache_file_name(psid)))

\* The clock advances by d seconds.
Tick(d) ==
    /\ ticks < MaxTicks
    /\ ticks' = ticks + 1
    /\ now' = now + d
    /\ UNCHANGED <<cache, cache_mtime, cache_mode, rot, rot_calls, rot_requests>>
    /\ UNCHANGED <<base_cookies, tasks, task_done, probe_pc, inspected,
                   probe_result, google>>
    /\ UNCHANGED <<wrapper_vars, more_vars>>

\* rotate_1psidts(cookies) is called with cookies whose _get_secure_1psid is
\* psid: lines 57-68, and the POST of line 82 is sent unless the call returned.
RotateCall(psid) ==
    /\ rot.pc \in {"idle", "returned", "raised"}
    /\ rot_calls < MaxRotations
    /\ rot_calls' = rot_calls + 1
    /\ IF no_session_id(psid)
         THEN /\ rot' = Rotation("returned", psid, NoResponse, Absent, NoneJar,
                                 "none", cache, cache_mtime)
              /\ rot_requests' = 0
         ELSE IF is_cache_fresh(is_file(cache, rotate_cache_file(psid)), now,
                                cache_mtime[rotate_cache_file(psid)], FreshWindow)
         THEN /\ rot' = Rotation("returned", psid, NoResponse,
                                 cache[rotate_cache_file(psid)],
                                 NoneJar, "none", cache, cache_mtime)
              /\ rot_requests' = 0
         ELSE /\ rot' = Rotation("posting", psid, NoResponse, Absent, NoneJar,
                                 "none", cache, cache_mtime)
              /\ rot_requests' = 1
    /\ UNCHANGED <<now, ticks, cache, cache_mtime, cache_mode>>
    /\ UNCHANGED <<base_cookies, tasks, task_done, probe_pc, inspected,
                   probe_result, google>>
    /\ UNCHANGED <<wrapper_vars, more_vars>>

\* The POST ends with resp: lines 87-97.
RotatePostEnds(resp) ==
    /\ rot.pc = "posting"
    /\ IF writes_cache(resp)
         THEN /\ cache' = write_text(cache, rotate_cache_file(rot.psid),
                                     resp.psidts)
              /\ cache_mtime' =
                    [cache_mtime EXCEPT ![rotate_cache_file(rot.psid)] = now]
              /\ cache_mode' = chmod(cache_mode, rotate_cache_file(rot.psid),
                                     "0600")
         ELSE UNCHANGED <<cache, cache_mtime, cache_mode>>
    /\ rot' =
         IF resp.status = "transport"
           THEN [rot EXCEPT !.pc = "raised", !.response = resp,
                            !.error = "TransportError"]
         ELSE IF unauthorized(resp)
           THEN [rot EXCEPT !.pc = "raised", !.response = resp,
                            !.error = "AuthError"]
         ELSE IF raise_for_status(resp)
           THEN [rot EXCEPT !.pc = "raised", !.response = resp,
                            !.error = "HTTPError"]
         ELSE IF has_new_token(resp.psidts)
           THEN [rot EXCEPT !.pc = "returned", !.response = resp,
                            !.token = resp.psidts, !.cookies = ResponseJar(resp)]
         ELSE [rot EXCEPT !.pc = "returned", !.response = resp,
                          !.token = Absent, !.cookies = ResponseJar(resp)]
    /\ UNCHANGED <<now, ticks, rot_calls, rot_requests>>
    /\ UNCHANGED <<base_cookies, tasks, task_done, probe_pc, inspected,
                   probe_result, google>>
    /\ UNCHANGED <<wrapper_vars, more_vars>>

----------------------------------------------------------------------------
\* Probe and rotation on one cache directory.

\* get_access_token(base_cookies=cookies) is called while rotations come and
\* go and the clock runs: the GET to google.com is under way.
ProbeCallWith(cookies) ==
    /\ probe_pc = "off"
    /\ base_cookies' = cookies
    /\ probe_pc' = "google"
    /\ UNCHANGED <<cache, tasks, task_done, inspected, probe_result, google>>
    /\ UNCHANGED <<wrapper_vars, rotate_vars, more_vars>>

----------------------------------------------------------------------------
\* Concurrent callers of one client: wrapped coroutines awaited by tasks of
\* one event loop, which interleave at the awaits (client.init(), func, the
\* sleep).

\* A call: where it is, the budget of its innermost frame, and as history
\* what that frame found at its entry: client._running, whether it called
\* client.init(), and whether another caller's init() was in progress.
Caller(at, remaining, is_running, inits, busy) ==
    [pc |-> at, remaining |-> remaining, running_at_start |-> is_running,
     init_called |-> inits, init_in_progress |-> busy]

PairFrame ==
    UNCHANGED <<kind, retry_max, pc, retries_remaining, caught, attempts, sleeps,
                calls, received, outcome, probe_vars, rotate_vars, replay_vars,
                shared_vars, keys_vars, cycle_vars>>

\* Entry of a frame of caller c with budget `remaining`:
\* _ensure_client_running up to its first suspension.
PairEnter(c, remaining) ==
    LET inits == needs_init(client_running)
        busy == \E d \in (1..NumCallers) \ {c} : callers[d].pc = "init"
    IN  /\ callers' = [callers EXCEPT ![c] =
               Caller(IF inits THEN "init" ELSE "call", remaining,
                      client_running, inits, busy)]
        /\ init_calls' = IF inits THEN init_calls + 1 ELSE init_calls

\* The except block of caller c's innermost frame (lines 90-96).
PairHandleException(c, err) ==
    callers' = [callers EXCEPT ![c].pc =
        IF except_APIError(err) /\ ~budget_exhausted(callers[c].remaining)
          THEN "sleep" ELSE "done"]

\* Caller c awaits the wrapped operation.
PairCall(c) ==
    /\ callers[c].pc = "idle"
    /\ PairEnter(c, retry_max)
    /\ UNCHANGED client_running
    /\ PairFrame

\* client.init() of caller c ends.
PairInitEnds(c, o) ==
    /\ callers[c].pc = "init"
    /\ client_running' = (o = "running")
    /\ IF EnsureAfterInit(o) = NoError
         THEN callers' = [callers EXCEPT ![c].pc = "call"]
         ELSE PairHandleException(c, EnsureAfterInit(o))
    /\ UNCHANGED init_calls
    /\ PairFrame

\* func of caller c returns or raises.
PairOpEnds(c, o) ==
    /\ callers[c].pc = "call"
    /\ IF o = "ok"
         THEN callers' = [callers EXCEPT ![c].pc = "done"]
         ELSE PairHandleException(c, Error(o, "op", 0))
    /\ UNCHANGED <<client_running, init_calls>>
    /\ PairFrame

\* The sleep of caller c ends: the recursive call.
PairSleepEnds(c) ==
    /\ callers[c].pc = "sleep"
    /\ PairEnter(c, next_current_retry(callers[c].remaining))
    /\ UNCHANGED client_running
    /\ PairFrame

----------------------------------------------------------------------------
\* The two wrappers on the same inputs.

\* No finished run of the coroutine wrapper is held.
NoRun == [held |-> FALSE]

\* A finished run of the coroutine wrapper: its inputs (the retry budget, and
\* per attempt whether the client was running, how init() ended and how func
\* ended, all in script) and what the wrapper did with them.
HeldRun ==
    [held |-> TRUE, script |-> attempts, sleeps |-> sleeps, calls |-> calls,
     init_calls |-> init_calls, outcome |-> outcome]

\* The coroutine wrapper's call has ended: its run is kept, and the same
\* client, in the state it had before that call, is handed to the generator
\* wrapper of an operation decorated with the same retry argument.
StartReplay ==
    /\ kind = "function" /\ pc = "done"
    /\ ~first_run.held
    /\ first_run' = HeldRun
    /\ kind' = "generator"
    /\ pc' = "idle"
    /\ client_running' = attempts[1].running_at_start
    /\ retries_remaining' = 0
    /\ caught' = <<>> /\ attempts' = <<>> /\ sleeps' = <<>>
    /\ calls' = 0 /\ init_calls' = 0 /\ received' = <<>>
    /\ outcome' = NoOutcome
    /\ UNCHANGED retry_max
    /\ UNCHANGED <<probe_vars, rotate_vars, shared_vars, keys_vars, cycle_vars, pair_vars>>

\* The generator wrapper's run gets the inputs of the held run: client.init()
\* of this attempt ends as it did there,
ReplayInitEnds ==
    /\ first_run.held /\ pc = "init"
    /\ Attempt <= Len(first_run.script)
    /\ first_run.script[Attempt].init_outcome \in InitOutcomes
    /\ GenInitEnds(first_run.script[Attempt].init_outcome)

\* func's generator ends as func did there,
ReplayOpEnds ==
    /\ first_run.held /\ pc = "call"
    /\ Attempt <= Len(first_run.script)
    /\ first_run.script[Attempt].op \in OpOutcomes
    /\ GenOpEnds(first_run.script[Attempt].op)

\* and the next attempt finds the client running or not as it did there.
ReplaySleepEnds ==
    /\ first_run.held /\ pc = "sleep"
    /\ Attempt < Len(first_run.script)
    /\ client_running = first_run.script[Attempt + 1].running_at_start
    /\ GenSleepEnds

----------------------------------------------------------------------------
\* One cache file under concurrent calls.

\* The calls of rotate_1psidts and of get_access_token for one session id that
\* run in threads or processes of their own (several clients on one host share
\* the cache directory), so that the file system's operations are the steps:
\* Path.write_text is open(mode='w'), which truncates, then the write of the
\* data, then close; chmod follows.
Procs == 1..NumProcs

\* The file's content is a string, here a sequence of characters. The token on
\* disk at the start is made of the character 0, the token the endpoint hands
\* to call p of the character p; tokens have any of these lengths.
TokenLengths == {1, 2}
TokenOf(p, n) == [i \in 1..n |-> p]
OldToken == TokenOf(0, 2)

\* The file does not exist. writer is history: the call whose data was written
\* last.
NoFile == [exists |-> FALSE, content |-> <<>>, mtime |-> 0, mode |-> "none",
           writer |-> 0]

\* A call: what it is (a rotation, or the probe's read of the cache file),
\* where it is, the token the endpoint gave it, the content it read from the
\* file (read says that it read the file).
NoCall == [role |-> "none", pc |-> "idle", token |-> <<>>, read |-> FALSE,
           seen |-> <<>>]

\* open(mode='w') by a call: the file is created or truncated.
open_w(f, t) ==
    [f EXCEPT !.exists = TRUE, !.content = <<>>, !.mtime = t,
              !.mode = IF f.exists THEN f.mode ELSE "0644"]

\* write(data) on a descriptor opened by open_w, at offset 0, then close.
write_data(f, data, t, p) ==
    [f EXCEPT !.content = data \o SubSeq(f.content, Len(data) + 1, Len(f.content)),
              !.mtime = t, !.writer = p]

\* rotate_1psidts is called by p: lines 57-68 for the session id of the file.
ShRotateCall(p) ==
    /\ procs[p].pc = "idle"
    /\ procs' = [procs EXCEPT ![p] =
          IF is_cache_fresh(file.exists, now, file.mtime, FreshWindow)
            THEN [@ EXCEPT !.role = "rotate", !.pc = "returned", !.read = TRUE,
                           !.seen = file.content]
            ELSE [@ EXCEPT !.role = "rotate", !.pc = "posting"]]
    /\ UNCHANGED <<file, wrapper_vars, probe_vars, rotate_vars, replay_vars,
                   keys_vars, cycle_vars, pair_vars>>

\* The POST of p succeeds: with a new token of length n, or with none (n = 0).
ShPostEnds(p, n) ==
    /\ procs[p].pc = "posting"
    /\ procs' = [procs EXCEPT ![p] =
          IF has_new_token(IF n = 0 THEN Absent ELSE RotatedToken(p))
            THEN [@ EXCEPT !.pc = "opening", !.token = TokenOf(p, n)]
            ELSE [@ EXCEPT !.pc = "returned"]]
    /\ UNCHANGED <<file, wrapper_vars, probe_vars, rotate_vars, replay_vars,
                   keys_vars, cycle_vars, pair_vars>>

\* cache_file.write_text(new_1psidts) of line 93, its open.
ShOpen(p) ==
    /\ procs[p].pc = "opening"
    /\ file' = open_w(file, now)
    /\ procs' = [procs EXCEPT ![p].pc = "writing"]
    /\ UNCHANGED <<wrapper_vars, probe_vars, rotate_vars, replay_vars, keys_vars,
                   cycle_vars, pair_vars>>

\* The same, its write and close.
ShWrite(p) ==
    /\ procs[p].pc = "writing"
    /\ file' = write_data(file, procs[p].token, now, p)
    /\ procs' = [procs EXCEPT ![p].pc = "chmod"]
    /\ UNCHANGED <<wrapper_vars, probe_vars, rotate_vars, replay_vars, keys_vars,
                   cycle_vars, pair_vars>>

\* cache_file.chmod(0o600) and the return of line 95.
ShChmod(p) ==
    /\ procs[p].pc = "chmod"
    /\ file' = [file EXCEPT !.mode = "0600"]
    /\ procs' = [procs EXCEPT ![p].pc = "returned"]
    /\ UNCHANGED <<wrapper_vars, probe_vars, rotate_vars, replay_vars, keys_vars,
                   cycle_vars, pair_vars>>

\* The probe of p reads the cache file of its session id (lines 106-117).
ShProbeRead(p) ==
    /\ procs[p].pc = "idle"
    /\ procs' = [procs EXCEPT ![p] =
          IF ~file.exists
            THEN [@ EXCEPT !.role = "probe", !.pc = "returned"]
            ELSE [@ EXCEPT !.role = "probe", !.pc = "returned", !.read = TRUE,
                           !.seen = file.content]]
    /\ UNCHANGED <<file, wrapper_vars, probe_vars, rotate_vars, replay_vars,
                   keys_vars, cycle_vars, pair_vars>>

----------------------------------------------------------------------------
\* Session id and cache directory.

\* A cookies argument, as far as __Secure-1PSID goes: a dict, which has the
\* value under the name (other), or a Cookies jar, which has the value of the
\* cookie scoped to .google.com (google) and the value of a cookie of another
\* or of no domain (other); last says what a get without a domain does when
\* the jar has both: it gives the one or the other (the one the jar lists
\* last), or raises CookieConflict.
NoCredentials == [type |-> "none", google |-> Absent, other |-> Absent,
                  last |-> "other"]
CredentialSets ==
    [type : {"dict"}, google : {Absent}, other : {Absent, Empty, 1, 2},
     last : {"other"}]
      \cup [type : {"Cookies"}, google : {Absent, Empty, 1},
            other : {Absent, 2}, last : {"google", "other", "conflict"}]

\* In the place of a session id: CookieConflict left _get_secure_1psid.
Conflict == -2

\* cookies.get("__Secure-1PSID", domain=".google.com") of a Cookies jar.
get_scoped(c) == c.google

\* cookies.get("__Secure-1PSID") of a dict or of a Cookies jar.
get_unscoped(c) ==
    IF c.google = Absent THEN c.other
    ELSE IF c.other = Absent THEN c.google
    ELSE CASE c.last = "google"   -> c.google
           [] c.last = "other"    -> c.other
           [] c.last = "conflict" -> Conflict

\* Python's `a or b` on str | None.
Or(a, b) == IF Truthy(a) THEN a ELSE b

\* _get_secure_1psid of get_access_token.py.
probe_get_secure_1psid(c) ==
    IF c.type = "Cookies" THEN Or(get_scoped(c), get_unscoped(c))
    ELSE get_unscoped(c)

\* Slip: the rotation's copy looks for no domain.
rotate_get_secure_1psid_unscoped(c) == get_unscoped(c)

\* _get_secure_1psid of rotate_1psidts.py.
rotate_get_secure_1psid(c) ==
    IF c.type = "Cookies" THEN Or(get_scoped(c), get_unscoped(c))
    ELSE get_unscoped(c)

\* A directory: Path(value of the variable), or a name under the directory of
\* a module. Both modules are in gemini_webapi/utils.
EnvDir(v) == [root |-> "path", name |-> "", value |-> v]
ModuleDir(name) == [root |-> "gemini_webapi/utils", name |-> name, value |-> Absent]
EnvValues == {Empty, 1, 2}

\* _get_cache_dir of get_access_token.py; env is os.getenv's result.
probe_get_cache_dir(env) ==
    IF Truthy(env) THEN EnvDir(env) ELSE ModuleDir("temp")

\* Slip: the rotation's copy does not read the variable.
rotate_get_cache_dir_fixed(env) == ModuleDir("temp")

\* _get_cache_dir of rotate_1psidts.py.
rotate_get_cache_dir(env) ==
    IF Truthy(env) THEN EnvDir(env) ELSE ModuleDir("temp")

\* os.environ["GEMINI_COOKIE_PATH"] = v
Setenv(v) ==
    /\ environ /= v
    /\ environ' = v
    /\ UNCHANGED <<credentials, resolved>>
    /\ UNCHANGED <<wrapper_vars, probe_vars, rotate_vars, replay_vars, shared_vars,
                   cycle_vars, pair_vars>>

\* del os.environ["GEMINI_COOKIE_PATH"]
Unsetenv ==
    /\ environ /= Absent
    /\ environ' = Absent
    /\ UNCHANGED <<credentials, resolved>>
    /\ UNCHANGED <<wrapper_vars, probe_vars, rotate_vars, replay_vars, shared_vars,
                   cycle_vars, pair_vars>>

\* What a module resolved: under which value of the variable, which
\* directory, which session id.
Resolved(by, dir, key) == [by |-> by, env |-> environ, dir |-> dir, key |-> key]

\* get_access_token resolves the directory it reads and the session id (lines
\* 218-219).
ProbeResolves ==
    /\ Len(resolved) < MaxResolved
    /\ resolved' = Append(resolved,
          Resolved("probe", probe_get_cache_dir(environ),
                   probe_get_secure_1psid(credentials)))
    /\ UNCHANGED <<environ, credentials>>
    /\ UNCHANGED <<wrapper_vars, probe_vars, rotate_vars, replay_vars, shared_vars,
                   cycle_vars, pair_vars>>

\* rotate_1psidts resolves the directory it reads and writes and the session
\* id (lines 57-60).
RotateResolves ==
    /\ Len(resolved) < MaxResolved
    /\ resolved' = Append(resolved,
          Resolved("rotate", rotate_get_cache_dir(environ),
                   rotate_get_secure_1psid(credentials)))
    /\ UNCHANGED <<environ, credentials>>
    /\ UNCHANGED <<wrapper_vars, probe_vars, rotate_vars, replay_vars, shared_vars,
                   cycle_vars, pair_vars>>

----------------------------------------------------------------------------
\* No probe is made.
ProbeOff ==
    /\ base_cookies = Jar(Absent, Absent)
    /\ tasks = <<>> /\ task_done = <<>>
    /\ probe_pc = "off" /\ inspected = 0 /\ probe_result = NoProbeResult
    /\ google = "none"

ProbeIdle ==
    /\ cache = [a \in Accounts |-> Absent]
    /\ ProbeOff

WrapperIdle ==
    /\ kind = "function" /\ retry_max = 0 /\ client_running = FALSE
    /\ pc = "off" /\ retries_remaining = 0 /\ caught = <<>> /\ attempts = <<>>
    /\ sleeps = <<>> /\ calls = 0 /\ init_calls = 0 /\ received = <<>>
    /\ outcome = NoOutcome

RotateIdle ==
    /\ now = 0 /\ ticks = 0
    /\ cache_mtime = [a \in Accounts |-> 0]
    /\ cache_mode = [a \in Accounts |-> "none"]
    /\ rot = NoRotation /\ rot_calls = 0 /\ rot_requests = 0

\* No run is replayed, no file is shared, nothing is resolved.
ReplayIdle == first_run = NoRun
SharedIdle == file = NoFile /\ procs = <<>>
KeysIdle == environ = Absent /\ credentials = NoCredentials /\ resolved = <<>>
CycleIdle == probe_found = NotFound
PairIdle == callers = <<>>

Init ==
    /\ kind \in {"function", "generator"}
    /\ retry_max \in 0..MaxRetry
    /\ client_running \in BOOLEAN
    /\ pc = "idle"
    /\ retries_remaining = 0
    /\ caught = <<>>
    /\ attempts = <<>>
    /\ sleeps = <<>>
    /\ calls = 0
    /\ init_calls = 0
    /\ received = <<>>
    /\ outcome = NoOutcome
    /\ ProbeIdle
    /\ RotateIdle
    /\ ReplayIdle /\ SharedIdle /\ KeysIdle /\ CycleIdle /\ PairIdle

Next ==
    \/ FuncCall
    \/ \E o \in InitOutcomes : FuncInitEnds(o)
    \/ \E o \in OpOutcomes : FuncOpEnds(o)
    \/ FuncSleepEnds
    \/ GenCall
    \/ \E o \in InitOutcomes : GenInitEnds(o)
    \/ GenYield
    \/ \E o \in OpOutcomes : GenOpEnds(o)
    \/ GenSleepEnds
    \/ ClientClose

Spec == Init /\ [][Next]_vars

\* The probe on its own: any base cookies, any cache directory.
InitProbe ==
    /\ base_cookies \in {Jar(p, t) : p \in {Absent, Empty} \cup Accounts,
                                     t \in {Absent, BaseToken}}
    /\ cache \in [Accounts -> {Absent, Empty, CachedToken}]
    /\ tasks = <<>> /\ task_done = <<>>
    /\ probe_pc = "start" /\ inspected = 0 /\ probe_result = NoProbeResult
    /\ google = "none"
    /\ WrapperIdle
    /\ RotateIdle
    /\ ReplayIdle /\ SharedIdle /\ KeysIdle /\ CycleIdle /\ PairIdle

NextProbe ==
    \/ ProbeCall
    \/ ProbeGoogleFails
    \/ ProbeCollectTasks
    \/ \E i \in 1..(NumAccounts + 1), r \in Responses \cup DetailedPages :
            TaskEnds(i, r)
    \/ ProbeInspect

SpecProbe == InitProbe /\ [][NextProbe]_vars

\* The rotation on its own: any cache directory, files of any age.
InitAges == {0, FreshWindow, FreshWindow + 1}
TickSteps == {1, FreshWindow}

InitRotate ==
    /\ cache \in [Accounts -> {Absent, Empty, CachedToken}]
    /\ now = 0 /\ ticks = 0
    /\ cache_mtime \in [Accounts -> {now - age : age \in InitAges}]
    /\ \A a \in Accounts : cache[a] = Absent => cache_mtime[a] = 0
    /\ \E mode \in {"0600", "0644"} :
          cache_mode = [a \in Accounts |->
                            IF cache[a] = Absent THEN "none" ELSE mode]
    /\ rot = NoRotation /\ rot_calls = 0 /\ rot_requests = 0
    /\ ProbeOff
    /\ WrapperIdle
    /\ ReplayIdle /\ SharedIdle /\ KeysIdle /\ CycleIdle /\ PairIdle

NextRotate ==
    \/ \E d \in TickSteps : Tick(d)
    \/ \E psid \in {Absent, Empty} \cup Accounts : RotateCall(psid)
    \/ \E resp \in RotResponses(rot_calls) : RotatePostEnds(resp)

SpecRotate == InitRotate /\ [][NextRotate]_vars

\* The rotation and the probe on one cache directory, empty at the start:
\* every record is one that a rotation wrote. One probe is made, at any time.

InitCycle ==
    /\ ProbeIdle /\ RotateIdle /\ WrapperIdle
    /\ ReplayIdle /\ SharedIdle /\ KeysIdle /\ CycleIdle /\ PairIdle

NextCycle ==
    \/ Tick(FreshWindow + 1)
    \/ \E psid \in Accounts : RotateCall(psid)
    \/ \E resp \in {[status |-> "200", psidts |-> RotatedToken(rot_calls)],
                     [status |-> "401", psidts |-> Absent]} :
            RotatePostEnds(resp)
    \/ \E cookies \in {Jar(p, Absent) : p \in {Absent} \cup Accounts}
                        \cup {Jar(1, BaseToken)} :
            ProbeCallWith(cookies)
    \/ ProbeCollectTasks
    \/ \E i \in 1..(NumAccounts + 1), r \in {"tokens", "no_tokens"} :
            TaskEnds(i, r)
    \/ ProbeInspect

SpecCycle == InitCycle /\ [][NextCycle]_vars

\* Several callers on one client, running or not, with no retry or one.

InitPair ==
    /\ kind = "function"
    /\ retry_max \in {0, 1}
    /\ client_running \in BOOLEAN
    /\ pc = "off" /\ retries_remaining = 0 /\ caught = <<>> /\ attempts = <<>>
    /\ sleeps = <<>> /\ calls = 0 /\ init_calls = 0 /\ received = <<>>
    /\ outcome = NoOutcome
    /\ callers = [c \in 1..NumCallers |->
                      Caller("idle", 0, FALSE, FALSE, FALSE)]
    /\ ProbeIdle /\ RotateIdle
    /\ ReplayIdle /\ SharedIdle /\ KeysIdle /\ CycleIdle

NextPair ==
    \E c \in (1..NumCallers) :
        \/ PairCall(c)
        \/ \E o \in InitOutcomes : PairInitEnds(c, o)
        \/ \E o \in {"ok", "APIError", "AuthError"} : PairOpEnds(c, o)
        \/ PairSleepEnds(c)

SpecPair == InitPair /\ [][NextPair]_vars

\* One cache file used by concurrent calls: the file is missing, or holds a
\* token that is stale or fresh.
InitShared ==
    /\ \/ file = NoFile
       \/ \E age \in InitAges :
            file = [exists |-> TRUE, content |-> OldToken, mtime |-> 0 - age,
                    mode |-> "0600", writer |-> 0]
    /\ procs = [p \in Procs |-> NoCall]
    /\ WrapperIdle /\ ProbeIdle /\ RotateIdle
    /\ ReplayIdle /\ KeysIdle /\ CycleIdle /\ PairIdle

NextShared ==
    \E p \in Procs :
        \/ ShRotateCall(p)
        \/ \E n \in {0} \cup TokenLengths : ShPostEnds(p, n)
        \/ ShOpen(p)
        \/ ShWrite(p)
        \/ ShChmod(p)
        \/ ShProbeRead(p)

SpecShared == InitShared /\ [][NextShared]_vars

\* The two wrappers one after the other on the same inputs: the coroutine
\* wrapper runs, then the generator wrapper is given the same budget, the same
\* client and the same outcomes of init() and of the operation.
InitBoth ==
    /\ kind = "function"
    /\ retry_max \in 0..MaxRetry
    /\ client_running \in BOOLEAN
    /\ pc = "idle"
    /\ retries_remaining = 0
    /\ caught = <<>> /\ attempts = <<>> /\ sleeps = <<>>
    /\ calls = 0 /\ init_calls = 0 /\ received = <<>>
    /\ outcome = NoOutcome
    /\ ProbeIdle /\ RotateIdle
    /\ ReplayIdle /\ SharedIdle /\ KeysIdle /\ CycleIdle /\ PairIdle

NextBoth ==
    \/ FuncCall
    \/ \E o \in InitOutcomes : FuncInitEnds(o)
    \/ \E o \in OpOutcomes : FuncOpEnds(o)
    \/ FuncSleepEnds
    \/ ClientClose
    \/ StartReplay
    \/ GenCall
    \/ ReplayInitEnds
    \/ GenYield
    \/ ReplayOpEnds
    \/ ReplaySleepEnds

SpecBoth == InitBoth /\ [][NextBoth]_vars

\* The session id and the cache directory, for any cookies and any value of
\* the environment variable, which is set and removed between the calls.
InitKeys ==
    /\ environ \in {Absent} \cup EnvValues
    /\ credentials \in CredentialSets
    /\ resolved = <<>>
    /\ WrapperIdle /\ ProbeIdle /\ RotateIdle
    /\ ReplayIdle /\ SharedIdle /\ CycleIdle /\ PairIdle

NextKeys ==
    \/ \E v \in EnvValues : Setenv(v)
    \/ Unsetenv
    \/ ProbeResolves
    \/ RotateResolves

SpecKeys == InitKeys /\ [][NextKeys]_vars

----------------------------------------------------------------------------
\* Properties of the retry wrapper (checked under Spec).

Done == pc = "done"

\* The exception attempt i ended with: raised by func, by
\* _ensure_client_running or by client.init(); NoError when it raised none.
AttemptError(i) ==
    IF attempts[i].op \in ErrorKinds THEN Error(attempts[i].op, "op", i)
    ELSE IF attempts[i].init_outcome = "not_running"
      THEN Error("APIError", "ensure", i)
    ELSE IF attempts[i].init_outcome \in ErrorKinds
      THEN Error(attempts[i].init_outcome, "init", i)
    ELSE NoError

\* func was invoked in every attempt so far and raised APIError each time.
AlwaysAPIError == \A i \in DOMAIN attempts : attempts[i].op = "APIError"

Raised(err) == [status |-> "raised", value |-> 0, error |-> err]

\* C1: a top-level call on a running client whose every attempt raises
\* APIError invokes func exactly retry_max + 1 times and then raises APIError.
C1_AlwaysFailingExhaustsBudget ==
    (Done /\ attempts[1].running_at_start /\ AlwaysAPIError)
        => /\ calls = retry_max + 1
           /\ Len(attempts) = retry_max + 1
           /\ outcome.status = "raised"
           /\ outcome.error.kind = "APIError"

C1_Witness ==
    /\ Done /\ attempts[1].running_at_start /\ AlwaysAPIError
    /\ retry_max = 2 /\ calls = 3

\* C2: an attempt that raises an error other than APIError ends the call at
\* once: the error goes to the caller, no sleep follows it and no further
\* attempt is made, whatever budget remains.
C2_OtherErrorsPropagateAtOnce ==
    \A i \in DOMAIN attempts :
        (AttemptError(i) /= NoError /\ ~IsAPIError(AttemptError(i).kind))
            => /\ Done
               /\ Len(attempts) = i
               /\ Len(sleeps) = i - 1
               /\ outcome = Raised(AttemptError(i))

C2_Witness ==
    /\ Done /\ Len(attempts) = 2 /\ retries_remaining >= 1
    /\ attempts[2].op = "RequestTimeoutError"
    /\ outcome.error.kind = "RequestTimeoutError"

\* C3: when func raises APIError on attempts 1..k-1 and succeeds on attempt k,
\* the call ends with the result of attempt k and func was invoked exactly k
\* times.
C3_SuccessEndsTheCall ==
    \A k \in DOMAIN attempts :
        (attempts[k].op = "ok" /\ \A i \in 1..(k - 1) : attempts[i].op = "APIError")
            => /\ Done
               /\ Len(attempts) = k
               /\ calls = k
               /\ k <= retry_max + 1
               /\ kind = "function" =>
                    outcome = [status |-> "returned", value |-> k, error |-> NoError]
               /\ kind = "generator" => outcome.status = "finished"

C3_Witness ==
    /\ kind = "function" /\ Done /\ retry_max = 3
    /\ Len(attempts) = 3 /\ attempts[3].op = "ok"
    /\ attempts[1].op = "APIError" /\ attempts[2].op = "APIError"
    /\ outcome.value = 3

\* C4: when the budget is exhausted, the caller gets the APIError of the final
\* attempt itself: not an earlier attempt's error, not one made by the wrapper.
C4_LastErrorReraisedUnmodified ==
    (/\ Done
     /\ Last(attempts).remaining = 0
     /\ IsAPIError(AttemptError(Len(attempts)).kind))
        => /\ outcome = Raised(AttemptError(Len(attempts)))
           /\ Len(attempts) = retry_max + 1

C4_Witness ==
    /\ Done /\ retry_max = 2 /\ Len(attempts) = 3
    /\ AlwaysAPIError
    /\ outcome = Raised(Error("APIError", "op", 3))

\* C5 as stated: when init() returns with the client still not running, the
\* wrapper fails fast for any retry budget: func is never invoked, nothing is
\* slept and init() is not called a second time.
C5_FailsFastForAnyBudget ==
    (attempts /= <<>> /\ attempts[1].init_outcome = "not_running")
        => /\ Done
           /\ outcome.status = "raised" /\ outcome.error.kind = "APIError"
           /\ calls = 0
           /\ sleeps = <<>>
           /\ init_calls = 1

\* C5, amended: when init() returns with the client still not running, the
\* attempt ends with the APIError of _ensure_client_running and func is not
\* invoked in it; that APIError is handled like one func raised: with no
\* retry left it goes to the caller at once, with no sleep after it and no
\* further init() call; with a retry left the wrapper sleeps the backoff and
\* the next attempt calls init() again if the client is still not running.
C5_InitFailureIsARecoverableFailure ==
    \A i \in DOMAIN attempts :
        attempts[i].init_outcome = "not_running"
            => /\ attempts[i].op = "none"
               /\ IF attempts[i].remaining = 0
                    THEN /\ Done
                         /\ Len(attempts) = i
                         /\ Len(sleeps) = i - 1
                         /\ init_calls =
                              Cardinality({j \in 1..i : attempts[j].init_called})
                         /\ outcome = Raised(Error("APIError", "ensure", i))
                    ELSE /\ Len(sleeps) >= i
                         /\ sleeps[i] = calculate_retry_delay(retry_max,
                                                              attempts[i].remaining)
                         /\ Len(attempts) > i =>
                              (attempts[i + 1].running_at_start
                                 \/ attempts[i + 1].init_called)

C5_Witness ==
    /\ retry_max = 1 /\ Done
    /\ Len(attempts) = 2
    /\ attempts[1].init_outcome = "not_running"
    /\ attempts[2].init_outcome = "not_running"
    /\ sleeps = <<5>> /\ init_calls = 2 /\ calls = 0

C7_DelaysShrink ==
    (retry_max = 3 /\ Done /\ AlwaysAPIError) => sleeps = <<15, 10, 5>>

\* C7, amended: with retry budget 3 and func always raising APIError the
\* sleeps are 5, 10, 15 seconds, in that order: the first retry waits
\* shortest and the delay grows with each consumed retry.
C7_DelaysGrow ==
    (retry_max = 3 /\ Done /\ AlwaysAPIError) => sleeps = <<5, 10, 15>>

C7_Witness ==
    /\ retry_max = 3 /\ Done /\ AlwaysAPIError
    /\ Len(attempts) = 4 /\ Len(sleeps) = 3

\* C8: at the start of every attempt, the first and each retry, init() is
\* called exactly when the client reports not running.
C8_InitIffNotRunning ==
    /\ \A i \in DOMAIN attempts :
          attempts[i].init_called <=> ~attempts[i].running_at_start
    /\ init_calls =
          Cardinality({i \in DOMAIN attempts : ~attempts[i].running_at_start})

C8_Witness ==
    /\ Len(attempts) = 3
    /\ attempts[1].op = "APIError" /\ attempts[2].op = "APIError"
    /\ attempts[2].running_at_start /\ ~attempts[2].init_called
    /\ ~attempts[3].running_at_start /\ attempts[3].init_called
    /\ init_calls = 1

\* The items of attempts 1..n, in attempt order.
RECURSIVE ItemsOfAttempts(_)
ItemsOfAttempts(n) ==
    IF n = 0 THEN <<>> ELSE ItemsOfAttempts(n - 1) \o attempts[n].items

\* C9: what the consumer of the generator wrapper has received is the
\* concatenation, in attempt order, of the items each attempt yielded, and
\* every attempt yields the operation's items from the first one on.
C9_ItemsAreConcatenatedPerAttempt ==
    /\ received = ItemsOfAttempts(Len(attempts))
    /\ \A i \in DOMAIN attempts :
          attempts[i].items = [n \in 1..Len(attempts[i].items) |-> n]

C9_Witness ==
    /\ kind = "generator" /\ Done /\ outcome.status = "finished"
    /\ received = <<1, 2, 1, 1, 2>>

----------------------------------------------------------------------------
\* Properties of the probe (checked under SpecProbe).

\* The responses that are pages with at least one of the three fields.
PagesWithTokens == {"tokens"} \cup DetailedPages
TaskValid(i) == tasks[i].state = "done" /\ tasks[i].response \in PagesWithTokens
AllTasksDone == \A i \in DOMAIN tasks : tasks[i].state = "done"
ValidTasks == {i \in DOMAIN tasks : TaskValid(i)}

\* C10: with at least one candidate and exactly one valid candidate, the probe
\* returns the response and the cookie jar of that candidate, wherever it is
\* in the tasks list and whenever it completes.
C10_TheOneValidCandidateWins ==
    (tasks /= <<>> /\ AllTasksDone /\ Cardinality(ValidTasks) = 1)
        => /\ inspected = Len(tasks) => probe_pc /= "racing"
           /\ probe_pc /= "racing" =>
                \E v \in ValidTasks :
                    probe_result = ProbeReturn(v, tasks[v].response, tasks[v].jar)

C10_Witness ==
    /\ Len(tasks) = 3 /\ AllTasksDone
    /\ ValidTasks = {3}
    /\ task_done = <<2, 3, 1>>
    /\ probe_result.status = "returned" /\ probe_result.task = 3

\* The consolidated failure of line 247 for n tasks, and the failure of line
\* 227.
ConsolidatedFailure(n) == ProbeRaise("AuthError", "Failed to initialize client", n)
NoCookiesFailure ==
    ProbeRaise("AuthError", "No valid cookies available for initialization", Absent)

\* The task inspected last.
LastInspected == tasks[task_done[inspected]]

\* C11: the probe inspects results in completion order and returns the
\* earliest-completing candidate whose response yields a token, also when a
\* valid candidate submitted before it completes after it.
C11_EarliestCompletedValidWins ==
    /\ inspected <= Len(task_done)
    /\ probe_pc = "returned" =>
         \E k \in DOMAIN task_done :
            /\ task_done[k] = probe_result.task
            /\ TaskValid(task_done[k])
            /\ \A j \in 1..(k - 1) : ~TaskValid(task_done[j])
            /\ inspected = k
            /\ probe_result =
                 ProbeReturn(task_done[k], tasks[task_done[k]].response,
                             tasks[task_done[k]].jar)

C11_Witness ==
    /\ probe_pc = "returned" /\ Len(tasks) = 2
    /\ task_done = <<2, 1>>
    /\ TaskValid(1) /\ TaskValid(2)
    /\ probe_result.task = 2

\* C12 as stated: with zero candidates or N candidates none of which yields a
\* token the probe raises AuthError and the message gives the number of
\* attempts, N or 0.
C12_FailureReportsCountAlsoForZero ==
    (google = "ok" /\ AllTasksDone /\ ValidTasks = {} /\ inspected = Len(tasks))
        => /\ probe_pc = "raised"
           /\ probe_result.error = "AuthError"
           /\ probe_result.count = Len(tasks)

\* C12, amended: with N >= 1 candidates none of which yields a token the probe
\* raises AuthError and the message gives N; with zero candidates it raises
\* AuthError with the message of line 227, which gives no number.
C12_FailureReportsCount ==
    (google = "ok" /\ AllTasksDone /\ ValidTasks = {} /\ inspected = Len(tasks))
        => /\ probe_pc = "raised"
           /\ probe_result = IF tasks = <<>> THEN NoCookiesFailure
                             ELSE ConsolidatedFailure(Len(tasks))

C12_Witness ==
    /\ google = "ok" /\ Len(tasks) = 3 /\ AllTasksDone /\ ValidTasks = {}
    /\ probe_pc = "raised" /\ probe_result.count = 3

\* C13: an exception in a candidate's request never aborts the probe: the
\* other candidates are still inspected, the probe returns if one of them
\* yields a token, and otherwise it raises the one consolidated AuthError.
C13_CandidateErrorsAreSwallowed ==
    (\E i \in DOMAIN tasks :
        tasks[i].state = "done" /\ request_raises(tasks[i].response))
        => /\ inspected = Len(tasks) => probe_pc /= "racing"
           /\ probe_pc = "raised" =>
                /\ inspected = Len(tasks)
                /\ ValidTasks = {}
                /\ probe_result = ConsolidatedFailure(Len(tasks))
           /\ (AllTasksDone /\ ValidTasks /= {} /\ probe_pc /= "racing") =>
                /\ probe_pc = "returned"
                /\ TaskValid(probe_result.task)

C13_Witness ==
    /\ probe_pc = "returned" /\ Len(tasks) = 3
    /\ task_done = <<1, 2, 3>> /\ inspected = 3
    /\ tasks[1].response = "http_error" /\ tasks[2].response = "consent"
    /\ probe_result.task = 3

\* C14 as stated: when no candidate succeeds and the candidate inspected last
\* ended with the consent redirect, the probe raises that candidate's error.
C14_LastConsentErrorIsSurfaced ==
    (/\ probe_pc = "raised" /\ tasks /= <<>> /\ inspected = Len(tasks)
     /\ LastInspected.response = "consent")
        => probe_result = CandidateError("consent")

\* C14, amended: when no candidate succeeds and the candidate inspected last
\* ended with the consent redirect, the probe raises the consolidated
\* AuthError that gives the number of attempts, not the candidate's error;
\* the consent redirect's error reaches the caller in no case.
C14_ConsentErrorIsNeverSurfaced ==
    /\ (/\ probe_pc = "raised" /\ tasks /= <<>> /\ inspected = Len(tasks)
        /\ LastInspected.response = "consent")
          => probe_result = ConsolidatedFailure(Len(tasks))
    /\ probe_result /= CandidateError("consent")
    /\ (\E i \in DOMAIN tasks : tasks[i].response = "consent")
          => (inspected < Len(tasks) => probe_pc /= "raised")

C14_Witness ==
    /\ probe_pc = "raised" /\ Len(tasks) = 2 /\ inspected = 2
    /\ task_done = <<2, 1>>
    /\ tasks[2].response = "no_tokens" /\ tasks[1].response = "consent"
    /\ probe_result = ConsolidatedFailure(2)

\* C15: no step of the probe, its return included, cancels a pending
\* request; once the probe has returned, each request still pending can still
\* end, and a request that ends then changes nothing of what was returned.
C15_LosersRunOn ==
    [][/\ \A i \in DOMAIN tasks :
             tasks[i].state = "pending" => tasks'[i].state \in {"pending", "done"}
       /\ probe_pc = "returned" =>
             /\ probe_pc' = "returned"
             /\ probe_result' = probe_result
             /\ \A i \in DOMAIN tasks :
                   tasks[i].state = "pending" => ENABLED TaskEnds(i, "tokens")]_vars

C15_Witness ==
    /\ probe_pc = "returned" /\ Len(tasks) = 3
    /\ inspected = 1 /\ task_done = <<2, 3>>
    /\ probe_result.task = 2
    /\ tasks[3].response = "tokens"
    /\ tasks[1].state = "pending"

\* No candidate can be built from these base cookies and this cache: the base
\* set lacks one of the two cookies, and the cache holds no token for its
\* session id, or no token at all when it has no session id.
NoCandidate(cookies, files) ==
    /\ ~(Present(cookies.psid) /\ Present(cookies.psidts))
    /\ IF Truthy(cookies.psid) THEN ~Truthy(files[cookies.psid])
       ELSE \A a \in Accounts : ~Truthy(files[a])

\* C16: when no candidate can be built, the probe raises AuthError and no
\* request to the init endpoint was issued.
C16_NoCandidateFailsBeforeAnyRequest ==
    (google = "ok" /\ NoCandidate(base_cookies, cache))
        => /\ probe_pc = "raised"
           /\ probe_result.error = "AuthError"
           /\ tasks = <<>> /\ task_done = <<>> /\ inspected = 0

C16_Witness ==
    /\ google = "ok" /\ probe_pc = "raised"
    /\ base_cookies = Jar(1, Absent)
    /\ cache[1] = Empty /\ cache[2] = CachedToken
    /\ tasks = <<>>

\* The cache file of the call's session id existed when the call was made,
\* and was at most FreshWindow seconds old.
FreshAtCall ==
    /\ rot.pc /= "idle"
    /\ Truthy(rot.psid)
    /\ rot.cache_at_call[rot.psid] /= Absent
    /\ rot.now_at_call - rot.mtime_at_call[rot.psid] <= FreshWindow

\* The POST of the call in rot ended with status st.
PostEnded(st) == rot.pc \in {"returned", "raised"} /\ rot.response.status = st

\* C17: a call that finds its cache file at most 60 seconds old returns the
\* content of the file, with no cookie jar, and sends no request to the
\* rotation endpoint.
C17_FreshCacheIsReturnedWithoutRequest ==
    FreshAtCall
        => /\ rot.pc = "returned"
           /\ rot.token = rot.cache_at_call[rot.psid]
           /\ rot.cookies = NoneJar
           /\ rot.response = NoResponse
           /\ rot_requests = 0

C17_Witness ==
    /\ FreshAtCall
    /\ rot.now_at_call - rot.mtime_at_call[rot.psid] = FreshWindow
    /\ rot.pc = "returned" /\ rot.token = CachedToken
    /\ rot_requests = 0

\* C18: when the rotation endpoint answers 401 the call raises AuthError and
\* every cache record keeps the token and the timestamp it had at the call.
C18_UnauthorizedRaisesAndKeepsCache ==
    PostEnded("401")
        => /\ rot.pc = "raised" /\ rot.error = "AuthError"
           /\ cache = rot.cache_at_call
           /\ cache_mtime = rot.mtime_at_call

C18_Witness ==
    /\ PostEnded("401") /\ rot.pc = "raised"
    /\ Truthy(rot.response.psidts)
    /\ rot.cache_at_call[rot.psid] = CachedToken
    /\ cache[rot.psid] = CachedToken
    /\ cache_mtime[rot.psid] < now

\* C19: when the response succeeds and carries a new __Secure-1PSIDTS, the
\* cache record of the session id holds exactly that token, whatever it held
\* before, and the call returns the token with the response's cookie jar.
C19_NewTokenIsCachedAndReturned ==
    (PostEnded("200") /\ Truthy(rot.response.psidts))
        => /\ rot.pc = "returned"
           /\ cache[rot.psid] = rot.response.psidts
           /\ rot.token = rot.response.psidts
           /\ rot.cookies = ResponseJar(rot.response)

C19_Witness ==
    /\ PostEnded("200") /\ rot.pc = "returned"
    /\ rot.cache_at_call[rot.psid] = CachedToken
    /\ rot.token = RotatedToken(rot_calls)
    /\ cache[rot.psid] = RotatedToken(rot_calls)

\* C20: when the response succeeds and carries no new __Secure-1PSIDTS, the
\* call returns no token with the response's cookie jar, and the cache is as
\* the call found it: no record is created, and every record keeps its token
\* and its timestamp.
C20_NoNewTokenLeavesCacheAlone ==
    (PostEnded("200") /\ ~Truthy(rot.response.psidts))
        => /\ rot.pc = "returned"
           /\ rot.token = Absent
           /\ rot.cookies = ResponseJar(rot.response)
           /\ cache = rot.cache_at_call
           /\ cache_mtime = rot.mtime_at_call
           /\ cache_mode = rot.mode_at_call

C20_Witness ==
    /\ PostEnded("200") /\ rot.pc = "returned"
    /\ rot.response.psidts = Absent
    /\ rot.token = Absent /\ ~rot.cookies.none
    /\ \E a \in Accounts : a /= rot.psid /\ cache[a] = CachedToken
    /\ cache[rot.psid] = Absent

\* The call in rot looked at the cache file of its session id: the file
\* existed or not, and its age in seconds then.
LookedAtCache == rot.pc /= "idle" /\ Truthy(rot.psid)
ExistedAtCall == rot.cache_at_call[rot.psid] /= Absent
AgeAtCall == rot.now_at_call - rot.mtime_at_call[rot.psid]

\* The call took the file for fresh: it returned without a request.
TookForFresh == rot.pc = "returned" /\ rot.response = NoResponse

\* C21: the file is taken for fresh if and only if it exists and is at most
\* 60 seconds old: at age 0 and at age 60 it is, at age 61 it is not.
C21_FreshIffExistsAndAtMostSixty ==
    LookedAtCache
        => /\ TookForFresh <=> (ExistedAtCall /\ AgeAtCall <= 60)
           /\ (ExistedAtCall /\ AgeAtCall \in {0, 60}) => TookForFresh
           /\ (ExistedAtCall /\ AgeAtCall = 61) => ~TookForFresh
           /\ ~ExistedAtCall => ~TookForFresh

\* The second call comes 61 seconds after the first one wrote the file.
C21_Witness ==
    /\ LookedAtCache /\ rot_calls = 2
    /\ rot.cache_at_call[rot.psid] = RotatedToken(1)
    /\ AgeAtCall = 61
    /\ rot.pc = "posting"

----------------------------------------------------------------------------
\* Properties of one cache file under concurrent calls (checked under
\* SpecShared).

\* A whole token: the one on disk at the start, or one the endpoint gave to a
\* call.
WholeToken(v) ==
    \/ v = OldToken
    \/ \E q \in Procs : procs[q].token /= <<>> /\ v = procs[q].token

\* C22: what a call read from the cache file is a whole token, the old one or
\* a new one, never an empty or partial value.
C22_ReadersSeeWholeTokens ==
    \A p \in Procs : procs[p].read => WholeToken(procs[p].seen)

\* No call is under way, and some call wrote the file.
WritersFinished ==
    /\ \A p \in Procs : procs[p].pc \in {"idle", "returned"}
    /\ file.writer /= 0

\* C29: once the overlapping rotations have finished, the file holds exactly
\* the token of the call that wrote last, never a mix of two tokens.
C29_LastWriterWins ==
    WritersFinished => file.content = procs[file.writer].token

----------------------------------------------------------------------------
\* More properties of the probe (checked under SpecProbe).

\* The response is a page that has at least one of the three fields.
ContainsToken(r) ==
    /\ r \notin {"none", "http_error", "consent"}
    /\ LET page == PageOf(r)
       IN  page.snlm0e /= Absent \/ page.cfb2h /= Absent \/ page.fdrfje /= Absent

\* C23: an inspected attempt is the probe's success if and only if its page
\* has at least one of the three fields; the access token returned is then a
\* string, the empty one when the page has no access token.
C23_SuccessIffSomeToken ==
    /\ \A n \in 1..inspected :
          ContainsToken(tasks[task_done[n]].response)
              <=> (probe_pc = "returned" /\ probe_result.task = task_done[n])
    /\ probe_pc = "returned"
          => /\ probe_result.tokens[1] /= Absent
             /\ PageOf(probe_result.response).snlm0e = Absent
                    => probe_result.tokens[1] = Empty
             /\ probe_result.tokens[2] = PageOf(probe_result.response).cfb2h
             /\ probe_result.tokens[3] = PageOf(probe_result.response).fdrfje

C23_Witness ==
    /\ probe_pc = "returned"
    /\ probe_result.response = "only_fdrfje"
    /\ probe_result.tokens = <<Empty, Absent, PageToken>>

----------------------------------------------------------------------------
\* The two wrappers compared (checked under SpecBoth).

\* What decides and shows the policy in one attempt.
PolicyOf(a) ==
    [remaining |-> a.remaining, running_at_start |-> a.running_at_start,
     init_called |-> a.init_called, init_outcome |-> a.init_outcome]

IsPrefix(s, t) == Len(s) <= Len(t) /\ \A i \in DOMAIN s : s[i] = t[i]

\* The generator wrapper ended as the coroutine wrapper did: both without an
\* exception, or both with the same exception of the same attempt.
SameEnd(gen, func) ==
    \/ gen.status = "finished" /\ func.status = "returned"
    \/ /\ gen.status = "raised" /\ func.status = "raised"
       /\ gen.error = func.error

\* C24: given the budget and the per-attempt outcomes of a run of the
\* coroutine wrapper, the generator wrapper makes the same attempts with the
\* same remaining budget, calls init() in the same attempts, sleeps the same
\* delays in the same order and ends the same way.
C24_WrappersShareOnePolicy ==
    first_run.held
        => /\ Len(attempts) <= Len(first_run.script)
           /\ \A i \in DOMAIN attempts :
                 PolicyOf(attempts[i]) = PolicyOf(first_run.script[i])
                    \/ (i = Len(attempts) /\ pc = "init"
                        /\ first_run.script[i].init_called)
           /\ IsPrefix(sleeps, first_run.sleeps)
           /\ calls <= first_run.calls /\ init_calls <= first_run.init_calls
           /\ pc = "done"
                => /\ Len(attempts) = Len(first_run.script)
                   /\ sleeps = first_run.sleeps
                   /\ calls = first_run.calls
                   /\ init_calls = first_run.init_calls
                   /\ SameEnd(outcome, first_run.outcome)

C24_Witness ==
    /\ first_run.held /\ pc = "done"
    /\ retry_max = 3
    /\ sleeps = <<5, 10>> /\ init_calls = 2 /\ calls = 2
    /\ received = <<1, 1, 2>>
    /\ outcome.status = "finished"

----------------------------------------------------------------------------
\* Properties of the session id and of the cache directory (checked under
\* SpecKeys).

\* Probe and rotation resolve the same directory under the same value of the
\* variable.
SameDirEverywhere ==
    \A i, j \in DOMAIN resolved :
        resolved[i].env = resolved[j].env => resolved[i].dir = resolved[j].dir

\* C25 as stated: the directory is the same for probe and rotation, the value
\* of GEMINI_COOKIE_PATH while it is set and the default one while it is not.
C25_EnvValueWhileSet ==
    /\ SameDirEverywhere
    /\ \A i \in DOMAIN resolved :
          resolved[i].dir = IF resolved[i].env /= Absent
                              THEN EnvDir(resolved[i].env)
                              ELSE ModuleDir("temp")

\* C25, amended: the directory is the same for probe and rotation, the value
\* of GEMINI_COOKIE_PATH while it is set to a non-empty value, and the default
\* one while it is not set or empty.
C25_EnvValueWhileSetAndNotEmpty ==
    /\ SameDirEverywhere
    /\ \A i \in DOMAIN resolved :
          resolved[i].dir = IF resolved[i].env \notin {Absent, Empty}
                              THEN EnvDir(resolved[i].env)
                              ELSE ModuleDir("temp")

\* The probe resolved the directory while the variable was set, the variable
\* was removed, and the rotation resolved the default directory.
C25_Witness ==
    /\ Len(resolved) = 2 /\ environ = Absent
    /\ resolved[1] = [by |-> "probe", env |-> 1, dir |-> EnvDir(1),
                      key |-> resolved[1].key]
    /\ resolved[2].by = "rotate" /\ resolved[2].env = Absent
    /\ resolved[2].dir = ModuleDir("temp")

\* Probe and rotation derive the same session id from the same cookies.
SameKeyEverywhere ==
    \A i, j \in DOMAIN resolved : resolved[i].key = resolved[j].key

----------------------------------------------------------------------------
\* More properties of the rotation (checked under SpecRotate) and of the probe
\* (checked under SpecProbe).

\* The call in rot wrote the token of its response.
WroteToken == PostEnded("200") /\ Truthy(rot.response.psidts)

\* C26: after a call that wrote a token the cache file of its session id has
\* mode 0600, also when it existed with a wider mode.
C26_WrittenFileIsOwnerOnly ==
    WroteToken => cache_mode[rot.psid] = "0600"

C26_Witness ==
    /\ WroteToken
    /\ rot.mode_at_call[rot.psid] = "0644"
    /\ cache_mode[rot.psid] = "0600"

\* C27: a session id has one record, and no step deletes a record: a record
\* that exists exists after every step, and a step changes no record but that
\* of the session id of the call that writes.
C27_RecordsAreNeverDeleted ==
    [][\A a \in Accounts :
          /\ cache[a] /= Absent => cache'[a] /= Absent
          /\ cache'[a] /= cache[a] =>
                /\ a = rot.psid
                /\ cache'[a] = rot'.token
                /\ cache_mtime'[a] = now
          /\ cache'[a] = cache[a] => cache_mtime'[a] = cache_mtime[a]]_vars

\* Two calls wrote, for two session ids: both records exist.
C27_Witness ==
    /\ rot_calls = 2 /\ WroteToken /\ rot.psid = 2
    /\ cache[1] = RotatedToken(1)
    /\ cache[2] = RotatedToken(2)

\* C30: the candidate made of the base cookies as they are is built if and
\* only if the base cookies have both __Secure-1PSID and __Secure-1PSIDTS.
C30_BaseCandidateIffBothCookies ==
    google = "ok"
        => ((\E i \in DOMAIN tasks : tasks[i].jar = base_cookies)
               <=> (base_cookies.psid /= Absent /\ base_cookies.psidts /= Absent))

C30_Witness ==
    /\ google = "ok"
    /\ base_cookies = Jar(1, BaseToken)
    /\ cache[1] = CachedToken
    /\ Len(tasks) = 2
    /\ tasks[1].jar = base_cookies /\ tasks[2].jar = Jar(1, CachedToken)

----------------------------------------------------------------------------
\* More properties of the probe's candidates (checked under SpecProbe).

\* The candidates built from cache records: those whose jar carries session
\* id a.
CandidatesOf(a) == {i \in DOMAIN tasks : tasks[i].jar.psid = a}

\* C32: when the base cookies have no session id, each cache record that holds
\* a token gives exactly one candidate, with the session id of the file's name
\* and the token of the file; a record that is missing or empty gives none.
C32_OneCandidatePerNonEmptyRecord ==
    (google = "ok" /\ ~Truthy(base_cookies.psid))
        => \A a \in Accounts :
              IF Truthy(cache[a])
                THEN /\ Cardinality(CandidatesOf(a)) = 1
                     /\ \A i \in CandidatesOf(a) : tasks[i].jar = Jar(a, cache[a])
                ELSE CandidatesOf(a) = {}

C32_Witness ==
    /\ google = "ok" /\ probe_pc = "racing"
    /\ base_cookies = Jar(Absent, Absent)
    /\ cache[1] = CachedToken /\ cache[2] = CachedToken
    /\ tasks = <<NewTask(Jar(2, CachedToken)), NewTask(Jar(1, CachedToken))>>

\* C36: the failure that counts the attempts is raised only when every
\* candidate's request has ended and has been inspected; none is pending.
C36_FailureOnlyAfterEveryCandidate ==
    (probe_pc = "raised" /\ probe_result.text = "Failed to initialize client")
        => /\ \A i \in DOMAIN tasks : tasks[i].state = "done"
           /\ Len(task_done) = Len(tasks)
           /\ inspected = Len(tasks)

C36_Witness ==
    /\ probe_pc = "raised" /\ probe_result.text = "Failed to initialize client"
    /\ Len(tasks) = 2 /\ inspected = 2
    /\ tasks[1].response = "no_tokens" /\ tasks[2].response = "http_error"

\* C40: when the base cookies have a session id, every candidate carries that
\* session id; when its record is missing or empty and the base cookies have
\* no __Secure-1PSIDTS, no candidate is built and the probe raises AuthError,
\* whatever records of other session ids the cache holds.
C40_OnlyTheRecordOfTheSessionId ==
    (google = "ok" /\ Truthy(base_cookies.psid))
        => /\ \A i \in DOMAIN tasks : tasks[i].jar.psid = base_cookies.psid
           /\ (~Truthy(cache[base_cookies.psid]) /\ base_cookies.psidts = Absent)
                 => /\ tasks = <<>>
                    /\ probe_pc = "raised"
                    /\ probe_result.error = "AuthError"
                    /\ task_done = <<>>

C40_Witness ==
    /\ google = "ok" /\ probe_pc = "raised"
    /\ base_cookies = Jar(2, Absent)
    /\ cache[2] = Absent /\ cache[1] = CachedToken
    /\ tasks = <<>> /\ probe_result.error = "AuthError"

----------------------------------------------------------------------------
\* Sleeps and attempts of the retry wrapper (checked under Spec).

\* C37: one sleep precedes each attempt but the first, and no other sleep is
\* made: before the first attempt there is none, while the wrapper sleeps
\* there are as many sleeps as attempts (the next attempt follows), and in an
\* attempt and at the end of the call there is one sleep less than attempts.
\* Every delay is above zero.
C37_OneSleepBeforeEachRetry ==
    /\ pc = "idle" => sleeps = <<>> /\ attempts = <<>>
    /\ pc = "sleep" => Len(sleeps) = Len(attempts)
    /\ pc \in {"init", "call", "done"} => Len(sleeps) = Len(attempts) - 1
    /\ \A i \in DOMAIN sleeps : sleeps[i] > 0

C37_Witness ==
    /\ Done /\ retry_max = 2
    /\ Len(attempts) = 3 /\ Len(sleeps) = 2
    /\ outcome.status = "raised" /\ outcome.error.kind = "APIError"

----------------------------------------------------------------------------
\* More properties of the rotation (checked under SpecRotate).

\* C38: a call whose cookies have no session id (the cookie is missing, or
\* empty) returns (None, None); it sends no request and the cache is as the
\* call found it: no record is created or changed.
C38_NoSessionIdReturnsAtOnce ==
    (rot.pc /= "idle" /\ ~Truthy(rot.psid))
        => /\ rot.pc = "returned"
           /\ rot.token = Absent /\ rot.cookies = NoneJar
           /\ rot.response = NoResponse
           /\ rot_requests = 0
           /\ cache = rot.cache_at_call
           /\ cache_mtime = rot.mtime_at_call
           /\ cache_mode = rot.mode_at_call

\* The call comes after one that wrote a record, and finds a stale one too.
C38_Witness ==
    /\ rot.pc = "returned" /\ rot.psid = Absent /\ rot_calls = 2
    /\ rot.token = Absent /\ rot.cookies = NoneJar /\ rot_requests = 0
    /\ cache[1] = RotatedToken(1)
    /\ cache[2] = CachedToken /\ now - cache_mtime[2] > FreshWindow

----------------------------------------------------------------------------
\* Empty tokens (checked under SpecShared).

\* C39: no empty token is written or returned: the cache file, when it
\* exists, holds a token that is not empty, and a rotation that returned a
\* token, from the endpoint or from the fresh file, returned one that is not
\* empty.
C39_NoEmptyTokenWrittenOrReturned ==
    /\ file.exists => file.content /= <<>>
    /\ \A p \in Procs :
          (procs[p].role = "rotate" /\ procs[p].pc = "returned")
              => (procs[p].read => procs[p].seen /= <<>>)

----------------------------------------------------------------------------
\* Probe and rotation on one cache directory (checked under SpecCycle).

\* The record of the base cookies' session id when the probe looked, and its
\* age in seconds then.
RecordFound == probe_found.files[base_cookies.psid]
AgeFound == probe_found.at - probe_found.mtimes[base_cookies.psid]
KnownSessionId == probe_found.looked /\ Truthy(base_cookies.psid)

\* C31: when the base cookies have a session id and its cache record holds a
\* token, a candidate is built that is the base cookies with the record's
\* token as __Secure-1PSIDTS, at any age of the record: at most 60 seconds
\* or more.
C31_CachedCandidateAtAnyAge ==
    (KnownSessionId /\ Truthy(RecordFound))
        => /\ AgeFound <= FreshWindow =>
                \E i \in DOMAIN tasks :
                    tasks[i].jar = Jar(base_cookies.psid, RecordFound)
           /\ AgeFound > FreshWindow =>
                \E i \in DOMAIN tasks :
                    tasks[i].jar = Jar(base_cookies.psid, RecordFound)

\* The record was 61 seconds old when the probe looked.
C31_Witness ==
    /\ KnownSessionId /\ base_cookies = Jar(1, BaseToken)
    /\ RecordFound = RotatedToken(1) /\ AgeFound = FreshWindow + 1
    /\ Len(tasks) = 2
    /\ tasks[1].jar = Jar(1, BaseToken)
    /\ tasks[2].jar = Jar(1, RotatedToken(1))

\* A step of the probe, and a step that changes the cache directory.
ProbeStep ==
    <<base_cookies, tasks, task_done, probe_pc, inspected, probe_result, google,
      probe_found>>' /=
    <<base_cookies, tasks, task_done, probe_pc, inspected, probe_result, google,
      probe_found>>
CacheStep ==
    <<cache, cache_mtime, cache_mode>>' /= <<cache, cache_mtime, cache_mode>>

\* C33: no step of the probe creates, overwrites or touches a cache record:
\* tokens, timestamps and modes are after it what they were before. A step
\* that changes the cache is the end of a rotation's POST.
C33_ProbeLeavesTheCacheAlone ==
    [][/\ ProbeStep => ~CacheStep
       /\ CacheStep => (rot.pc = "posting" /\ rot'.pc = "returned")]_vars

\* A probe that read a stale record has failed, every candidate inspected.
C33_Witness ==
    /\ probe_pc = "raised" /\ KnownSessionId
    /\ probe_result.text = "Failed to initialize client"
    /\ Truthy(RecordFound) /\ AgeFound > FreshWindow
    /\ cache = probe_found.files /\ cache_mtime = probe_found.mtimes

\* The last rotation before the probe looked wrote a token for the session id
\* of the base cookies.
RotationWroteFor(psid) ==
    /\ probe_found.looked
    /\ probe_found.rotation.pc = "returned"
    /\ probe_found.rotation.response.status = "200"
    /\ Truthy(probe_found.rotation.response.psidts)
    /\ probe_found.rotation.psid = psid

----------------------------------------------------------------------------
\* Concurrent callers (checked under SpecPair).

InitsInProgress == {c \in (1..NumCallers) : callers[c].pc = "init"}

\* C35 as stated: at most one init() is in progress; a second caller starts
\* none while the first caller's is under way.
C35_OneInitAtATime == Cardinality(InitsInProgress) <= 1

\* C35: each caller calls init() at the entry of a frame exactly when it
\* finds the client not running, also while another caller's init() is in
\* progress.
C35_EachCallerInitsForItself ==
    \A c \in (1..NumCallers) :
        callers[c].pc /= "idle"
            => (callers[c].init_called <=> ~callers[c].running_at_start)

\* The second caller called init() while the first caller's was in progress.
C35_Witness ==
    /\ callers[1].pc = "init" /\ callers[2].pc = "init"
    /\ callers[2].init_called /\ callers[2].init_in_progress
    /\ ~client_running /\ init_calls = 2

====
